---- MODULE Spec2Model ----
(***************************************************************************)
(* Model of the adoption engine of the drawdown repository.                *)
(*                                                                         *)
(* This part models src/model/helpertables.py (class HelperTables): the    *)
(* Reference and PDS adoption tables computed from two datapoints, the     *)
(* addressable market (TAM), the aggregated source data and the settings   *)
(* object `ac`.                                                            *)
(*                                                                         *)
(* Numbers.  The code computes on IEEE doubles in pandas tables.  The      *)
(* model computes on exact numbers: a value v of the code is              *)
(* an integer, and the datapoints are drawn from the multiples of Scale,   *)
(* chosen so that every division the code makes on them is exact.  A       *)
(* missing value (NaN) is a value of its own, distinct from 0.  Rounding   *)
(* of doubles is outside the model.                                        *)
(***************************************************************************)
EXTENDS Integers, Sequences, FiniteSets, TLC

\* ------------------------------------------------------------------ bounds

\* Largest datapoint / source value (in whole units) the inputs are drawn from.
MaxVal == 2
\* The adoption tables of the unit adoption runs cover Horizon + 1 years, and
\* a unit is replaced after at most MaxLifetime years.
Horizon == 4
MaxLifetime == 2

\* helpertables.py:40 and :123, `last_year = 2060`.
last_year == 2060

\* ch4calcs.py:89-90, tons of CH4 per part per billion: 16.04 * 1.8 * 10 ** 5.
tons_per_ppb == 2887200

\* ------------------------------------------------------------------ values

\* A cell of a table: a number, the missing-value marker NaN, or one of the
\* two infinities a float division by zero produces (inf is its sign).
NaN == [nan |-> TRUE, inf |-> 0, v |-> 0]
Num(n) == [nan |-> FALSE, inf |-> 0, v |-> n]
Inf(sign) == [nan |-> FALSE, inf |-> sign, v |-> 0]
IsNaN(x) == x.nan
IsInf(x) == x.inf # 0

\* The pairs of years (year1, year2) the two datapoint rows are indexed by.
DatapointYears == { <<2057, 2058>>, <<2058, 2059>>, <<2058, 2060>> }

RECURSIVE Gcd(_, _)
Gcd(a, b) == IF b = 0 THEN a ELSE Gcd(b, a % b)
Lcm(a, b) == (a * b) \div Gcd(a, b)

RECURSIVE LcmOfSet(_)
LcmOfSet(S) ==
    IF S = {} THEN 1
    ELSE LET x == CHOOSE y \in S : TRUE IN Lcm(x, LcmOfSet(S \ {x}))

\* The step of the datapoint values: every (year2 - year1) divides it.
Scale == LcmOfSet({ p[2] - p[1] : p \in DatapointYears })

\* The columns of the tables: World and the sub-regions.
SubRegions == <<"OECD90", "Eastern Europe">>
Columns == <<"World">> \o SubRegions
Regions == { Columns[i] : i \in 1..Len(Columns) }

\* float arithmetic with NaN propagation; inf - inf is NaN
FNeg(a) == IF IsNaN(a) THEN NaN ELSE IF IsInf(a) THEN Inf(0 - a.inf) ELSE Num(0 - a.v)
FAdd(a, b) ==
    IF IsNaN(a) \/ IsNaN(b) THEN NaN
    ELSE IF IsInf(a) /\ IsInf(b) THEN (IF a.inf = b.inf THEN a ELSE NaN)
    ELSE IF IsInf(a) THEN a
    ELSE IF IsInf(b) THEN b
    ELSE Num(a.v + b.v)
FSub(a, b) == FAdd(a, FNeg(b))

\* fract * x for the exact fraction num/den (den > 0 divides num * x.v on the
\* modelled inputs).
FMulFrac(num, den, x) == IF IsNaN(x) THEN NaN ELSE Num((num * x.v) \div den)

\* Python's builtin min(a, b) on floats: b if b < a else a; a comparison with
\* NaN is False, so a NaN in either place returns a.
PyMinBad(a, b) == IF ~IsNaN(a) /\ ~IsNaN(b) /\ b.v > a.v THEN b ELSE a
PyMin(a, b) == IF ~IsNaN(a) /\ ~IsNaN(b) /\ b.v < a.v THEN b ELSE a

\* a <= b on floats: False when either is NaN.
FLeq(a, b) ==
    /\ ~IsNaN(a)
    /\ ~IsNaN(b)
    /\ \/ a.inf < b.inf
       \/ a.inf = b.inf /\ (IsInf(a) \/ a.v <= b.v)

\* a / d on floats, for the divisors of the model (d.v >= 0 divides a.v): a
\* zero divisor gives an infinity of a's sign, and NaN for 0 / 0.
FDiv(a, d) ==
    IF IsNaN(a) \/ IsNaN(d) THEN NaN
    ELSE IF d.v = 0
    THEN (IF IsInf(a) THEN a
          ELSE IF a.v > 0 THEN Inf(1)
          ELSE IF a.v < 0 THEN Inf(0 - 1)
          ELSE NaN)
    ELSE IF IsInf(a) THEN a
    ELSE Num(a.v \div d.v)

\* clip(lower=0.0) of one cell: NaN stays NaN.
ClipLower(a) == IF IsNaN(a) THEN NaN ELSE IF FLeq(a, Num(0)) THEN Num(0) ELSE a

\* DataFrame.sum(axis=1) of one row: NaN cells are skipped.
RECURSIVE RowSumFrom(_, _)
RowSumFrom(row, i) ==
    IF i > Len(Columns) THEN 0
    ELSE (IF IsNaN(row[Columns[i]]) THEN 0 ELSE row[Columns[i]].v)
         + RowSumFrom(row, i + 1)
RowSum(row) == Num(RowSumFrom(row, 1))

\* ------------------------------------------------------------------ tables

\* A datapoints DataFrame: two rows indexed by years[1] < years[2], one cell
\* per column.  A time-region table: a function from years to rows.
NoYear == 0 - 1

\* DataFrame.first_valid_index(): the first index whose row holds a value that
\* is not NaN; None (NoYear) when there is none.
first_valid_index(datapoints) ==
    IF \E r \in Regions : ~IsNaN(datapoints.rows[1][r]) THEN datapoints.years[1]
    ELSE IF \E r \in Regions : ~IsNaN(datapoints.rows[2][r]) THEN datapoints.years[2]
    ELSE NoYear

\* pd.DataFrame(0, index=np.arange(first_year, last_year + 1), columns=...)
ZeroTable(first_year) ==
    [y \in first_year..last_year |-> [r \in Regions |-> Num(0)]]

\* The value of the line through the two datapoints of column col at year
\* (helpertables.py:73-78).
LinearValueBad(datapoints, col, year) ==
    LET year1 == datapoints.years[1]
        year2 == datapoints.years[2]
        adopt1 == datapoints.rows[1][col]
        adopt2 == datapoints.rows[2][col]
    IN  FAdd(adopt1, FMulFrac(year - year1, year2 - year1, adopt2))
LinearValue(datapoints, col, year) ==
    LET year1 == datapoints.years[1]
        year2 == datapoints.years[2]
        adopt1 == datapoints.rows[1][col]
        adopt2 == datapoints.rows[2][col]
    IN  FAdd(adopt1, FMulFrac(year - year1, year2 - year1, FSub(adopt2, adopt1)))

\* HelperTables._linear_forecast: every column, every year of the table.
_linear_forecast(first_year, datapoints, adoption) ==
    [y \in DOMAIN adoption |->
        [r \in Regions |-> LinearValue(datapoints, r, y)]]

\* adoption.loc[:, "World"] = 0; adoption.loc[:, "World"] = adoption.sum(axis=1)
RegionalSumBad(adoption) ==
    [y \in DOMAIN adoption |->
        [adoption[y] EXCEPT !["World"] = RowSum(adoption[y])]]
RegionalSum(adoption) ==
    [y \in DOMAIN adoption |->
        [adoption[y] EXCEPT !["World"] =
            RowSum([adoption[y] EXCEPT !["World"] = Num(0)])]]

\* for col: adoption[col] = adoption[col].combine(tam[col], min).  combine
\* works on the union of the two indexes with NaN for a missing side; the
\* assignment keeps the rows of adoption's own index.
CapToTamBad(adoption, tam_per_region) ==
    LET y0 == CHOOSE y \in DOMAIN adoption : \A z \in DOMAIN adoption : y <= z
    IN  [y \in DOMAIN adoption |->
          [r \in Regions |->
            PyMin(adoption[y][r],
                  IF y0 \in DOMAIN tam_per_region THEN tam_per_region[y0][r] ELSE NaN)]]
CapToTam(adoption, tam_per_region) ==
    [y \in DOMAIN adoption |->
        [r \in Regions |->
            PyMin(adoption[y][r],
                  IF y \in DOMAIN tam_per_region THEN tam_per_region[y][r] ELSE NaN)]]

\* What a call returns: a named table, or the exception it raised.
Returned(name, table) ==
    [status |-> "ok", exc |-> "", name |-> name, index_name |-> "Year", table |-> table]
Raised(exc, msg) ==
    [status |-> "raised", exc |-> exc, name |-> msg, index_name |-> "", table |-> <<>>]
NotCalled ==
    [status |-> "none", exc |-> "", name |-> "", index_name |-> "", table |-> <<>>]

\* HelperTables.soln_ref_funits_adopted(ref_datapoints, ref_tam_per_region)
soln_ref_funits_adopted(cfg, ref_datapoints, ref_tam_per_region) ==
    LET first_year == first_valid_index(ref_datapoints)
    IN  IF first_year = NoYear
        THEN Raised("TypeError", "np.arange(None, ...)")
        ELSE
        LET zero == ZeroTable(first_year)
            linear == _linear_forecast(first_year, ref_datapoints, zero)
            summed == IF cfg.soln_ref_adoption_regional_data
                      THEN RegionalSum(linear) ELSE linear
            capped == CapToTam(summed, ref_tam_per_region)
        IN  Returned("soln_ref_funits_adopted", capped)

\* ------------------------------------------------------------------ PDS

\* The enumerations of helpertables.py:14-18.
ADOPTION_BASIS ==
    {"LINEAR", "S_CURVE", "PROGNOSTICATION", "CUSTOM_S_CURVE", "FULLY_CUSTOM"}
ADOPTION_PROGNOSTICATION_GROWTH == {"LOW", "MEDIUM", "HIGH"}

\* HelperTables._get_source_data: the column of adoption_low_med_high the
\* growth setting names, or the NotImplementedError of the else branch.
_get_source_data(cfg, adoption_low_med_high) ==
    LET growth == cfg.soln_pds_adoption_prognostication_growth
    IN  IF growth = "HIGH"
        THEN Returned("", [y \in DOMAIN adoption_low_med_high |->
                              adoption_low_med_high[y].High])
        ELSE IF growth = "MEDIUM"
        THEN Returned("", [y \in DOMAIN adoption_low_med_high |->
                              adoption_low_med_high[y].Medium])
        ELSE IF growth = "LOW"
        THEN Returned("", [y \in DOMAIN adoption_low_med_high |->
                              adoption_low_med_high[y].Low])
        ELSE Raised("NotImplementedError",
                    "Unknown soln_pds_adoption_prognostication_growth")

\* ADOPTION_PROGNOSTICATION_TREND members; None is Python's None, which a
\* setting holds when the scenario does not give it.
ADOPTION_PROGNOSTICATION_TREND == {"LINEAR", "POLY_2ND", "POLY_3RD", "EXPONENTIAL"}
None == "None"

\* A call that returned a plain value (an enum member, a function, None).
ReturnedValue(v) == [status |-> "ok", value |-> v]

\* HelperTables._get_trend_func: the function of model/interpolation.py for
\* the configured trend; falling off the end of the if-chain returns None.
_get_trend_func(cfg) ==
    LET trend == cfg.soln_pds_adoption_prognostication_trend
    IN  IF trend = "LINEAR" THEN ReturnedValue("interpolation.linear_trend")
        ELSE IF trend = "POLY_2ND" THEN ReturnedValue("interpolation.poly_degree2_trend")
        ELSE IF trend = "POLY_3RD" THEN ReturnedValue("interpolation.poly_degree3_trend")
        ELSE IF trend = "EXPONENTIAL" THEN ReturnedValue("interpolation.exponential_trend")
        ELSE ReturnedValue(None)

\* str(text).lower() on the texts of TrendTexts: a text with a capital has
\* its lower-case spelling, every other text is itself.
Lower(text) ==
    CASE text = "Linear" -> "linear"
      [] text = "LINEAR" -> "linear"
      [] text = "2nd Poly" -> "2nd poly"
      [] text = "2nd_Poly" -> "2nd_poly"
      [] text = "3rd Poly" -> "3rd poly"
      [] text = "3RD_POLY" -> "3rd_poly"
      [] text = "Exponential" -> "exponential"
      [] text = "EXP" -> "exp"
      [] text = "Poly" -> "poly"
      [] text = "Logistic" -> "logistic"
      [] OTHER -> text

\* string_to_adoption_prognostication_trend(text)
string_to_adoption_prognostication_trend(text) ==
    LET ltext == Lower(text)
    IN  IF ltext = "linear" THEN ReturnedValue("LINEAR")
        ELSE IF ltext = "2nd poly" THEN ReturnedValue("POLY_2ND")
        ELSE IF ltext = "2nd_poly" THEN ReturnedValue("POLY_2ND")
        ELSE IF ltext = "3rd poly" THEN ReturnedValue("POLY_3RD")
        ELSE IF ltext = "3rd_poly" THEN ReturnedValue("POLY_3RD")
        ELSE IF ltext = "exponential" THEN ReturnedValue("EXPONENTIAL")
        ELSE IF ltext = "exp" THEN ReturnedValue("EXPONENTIAL")
        ELSE Raised("ValueError", "invalid adoption prognostication trend name=")

\* HelperTables._single_source: True when source is a list with one item.
\* A source setting is None, or a list of source names.
NoSource == [is_none |-> TRUE, items |-> <<>>]
SourceList(items) == [is_none |-> FALSE, items |-> items]
_single_sourceBad(source) ==
    IF source.is_none THEN FALSE
    ELSE IF Len(source.items) >= 1 THEN TRUE
    ELSE FALSE
_single_source(source) ==
    IF source.is_none THEN FALSE
    ELSE IF Len(source.items) = 1 THEN TRUE
    ELSE FALSE

\* adoption['World'] = series (and adoption.loc[:, 'World'] = series): the
\* series is aligned on adoption's index, a year it lacks becomes NaN.
SetWorld(adoption, series) ==
    [y \in DOMAIN adoption |->
        [adoption[y] EXCEPT !["World"] =
            IF y \in DOMAIN series THEN series[y] ELSE NaN]]

\* adoption.loc[first_year] = pds_datapoints.loc[first_year]
SetFirstYearBad(adoption, first_year, datapoints) ==
    adoption
SetFirstYear(adoption, first_year, datapoints) ==
    LET row == IF first_year = datapoints.years[1]
               THEN datapoints.rows[1] ELSE datapoints.rows[2]
    IN  [adoption EXCEPT ![first_year] = row]

\* The table the PDS basis selection leaves in `adoption` (helpertables.py:
\* 128-141), or the exception it raises.  trend_adoption is the 'adoption'
\* column of trend_func(source_data), computed by model/interpolation.py.
PdsBasisBad(cfg, first_year, pds_datapoints, source_data, trend_adoption) ==
    LET zero == ZeroTable(first_year)
        basis == cfg.soln_pds_adoption_basis
    IN  IF basis = "LINEAR"
        THEN Returned("", _linear_forecast(first_year, pds_datapoints, zero))
        ELSE IF _single_source(cfg.soln_pds_adoption_prognostication_source)
        THEN Returned("", SetWorld(zero, source_data))
        ELSE IF basis = "S_CURVE"
        THEN Raised("NotImplementedError", "S-Curve support not implemented")
        ELSE IF basis = "PROGNOSTICATION"
        THEN IF _get_trend_func(cfg).value = None
             THEN Raised("TypeError", "'NoneType' object is not callable")
             ELSE Returned("", SetWorld(zero, trend_adoption))
        ELSE IF basis = "CUSTOM_S_CURVE"
        THEN Raised("NotImplementedError", "Custom S-Curve support not implemented")
        ELSE IF basis = "FULLY_CUSTOM"
        THEN Raised("NotImplementedError", "Fully Custom Adoption support not implemented")
        ELSE Returned("", zero)
PdsBasis(cfg, first_year, pds_datapoints, source_data, trend_adoption) ==
    LET zero == ZeroTable(first_year)
        basis == cfg.soln_pds_adoption_basis
    IN  IF _single_source(cfg.soln_pds_adoption_prognostication_source)
        THEN Returned("", SetWorld(zero, source_data))
        ELSE IF basis = "LINEAR"
        THEN Returned("", _linear_forecast(first_year, pds_datapoints, zero))
        ELSE IF basis = "S_CURVE"
        THEN Raised("NotImplementedError", "S-Curve support not implemented")
        ELSE IF basis = "PROGNOSTICATION"
        THEN IF _get_trend_func(cfg).value = None
             THEN Raised("TypeError", "'NoneType' object is not callable")
             ELSE Returned("", SetWorld(zero, trend_adoption))
        ELSE IF basis = "CUSTOM_S_CURVE"
        THEN Raised("NotImplementedError", "Custom S-Curve support not implemented")
        ELSE IF basis = "FULLY_CUSTOM"
        THEN Raised("NotImplementedError", "Fully Custom Adoption support not implemented")
        ELSE Returned("", zero)

\* soln_pds_funits_adopted up to and including the capping (helpertables.py:
\* 122-149): the table before the first-year row is overwritten.
PdsComputed(cfg, pds_datapoints, adoption_low_med_high, trend_adoption, pds_tam_per_region) ==
    LET first_year == first_valid_index(pds_datapoints)
        source_data == _get_source_data(cfg, adoption_low_med_high)
    IN  IF first_year = NoYear
        THEN Raised("TypeError", "np.arange(None, ...)")
        ELSE IF source_data.status = "raised"
        THEN source_data
        ELSE
        LET chosen == PdsBasis(cfg, first_year, pds_datapoints, source_data.table,
                               trend_adoption)
        IN  IF chosen.status = "raised" THEN chosen
            ELSE
            LET summed == IF cfg.soln_pds_adoption_regional_data
                          THEN RegionalSum(chosen.table) ELSE chosen.table
            IN  Returned("", CapToTam(summed, pds_tam_per_region))

\* HelperTables.soln_pds_funits_adopted(pds_datapoints, adoption_low_med_high,
\* pds_tam_per_region)
soln_pds_funits_adopted(cfg, pds_datapoints, adoption_low_med_high, trend_adoption, pds_tam_per_region) ==
    LET capped == PdsComputed(cfg, pds_datapoints, adoption_low_med_high,
                              trend_adoption, pds_tam_per_region)
        first_year == first_valid_index(pds_datapoints)
    IN  IF capped.status = "raised" THEN capped
        ELSE Returned("soln_pds_funits_adopted",
                      SetFirstYear(capped.table, first_year, pds_datapoints))

\* ------------------------------------------------------------------ unit adoption

\* An optional argument or setting: Python's None, or a value.
Nothing == [is_none |-> TRUE]
Given(x) == [is_none |-> FALSE, x |-> x]

\* The first index label of a table (its index is a range of years), and the
\* table without its first row (DataFrame.iloc[1:]).
FirstIndex(table) == CHOOSE y \in DOMAIN table : y - 1 \notin DOMAIN table
Iloc1(table) ==
    LET first == FirstIndex(table)
    IN  [y \in DOMAIN table \ {first} |-> table[y]]

\* Cell-wise operations of pandas on tables with the same columns.
FillNa(table) ==
    [y \in DOMAIN table |-> [r \in Regions |->
        IF IsNaN(table[y][r]) THEN Num(0) ELSE table[y][r]]]
DivideBy(table, d) ==
    [y \in DOMAIN table |-> [r \in Regions |-> FDiv(table[y][r], d)]]
Subtract(a, b) ==
    [y \in DOMAIN a |-> [r \in Regions |->
        IF y \in DOMAIN b THEN FSub(a[y][r], b[y][r]) ELSE NaN]]
Plus(a, b) ==
    [y \in DOMAIN a |-> [r \in Regions |->
        IF y \in DOMAIN b THEN FAdd(a[y][r], b[y][r]) ELSE NaN]]
Clip(table) ==
    [y \in DOMAIN table |-> [r \in Regions |-> ClipLower(table[y][r])]]
\* DataFrame.diff(): the first row has no predecessor and is NaN.
Diff(table) ==
    [y \in DOMAIN table |-> [r \in Regions |->
        IF y - 1 \notin DOMAIN table THEN NaN ELSE FSub(table[y][r], table[y - 1][r])]]

\* DataFrame.cumsum(axis=0, skipna=False) of one column up to year y.
RECURSIVE CumsumTo(_, _, _)
CumsumTo(table, r, y) ==
    IF y - 1 \notin DOMAIN table THEN table[y][r]
    ELSE FAdd(CumsumTo(table, r, y - 1), table[y][r])
Cumsum(table) ==
    [y \in DOMAIN table |-> [r \in Regions |-> CumsumTo(table, r, y)]]

\* A call that never returns.
Hangs == [status |-> "hangs", exc |-> "", name |-> "", index_name |-> "", table |-> <<>>]

\* UnitAdoption.__init__: stores its arguments; nothing is examined.
UnitAdoption__init__(args) == [args EXCEPT !.constructed = TRUE]

\* UnitAdoption.soln_pds_cumulative_funits
soln_pds_cumulative_funitsBad(self) ==
    Returned("soln_pds_cumulative_funits", Cumsum(self.soln_pds_funits_adopted))
soln_pds_cumulative_funits(self) ==
    LET filled == FillNa(self.soln_pds_funits_adopted)
        first == FirstIndex(filled)
        omit_world == [r \in Regions |-> IF r = "World" THEN Num(0) ELSE filled[first][r]]
        first_year == IF self.bug_cfunits_double_count
                      THEN [filled EXCEPT ![first] =
                              [r \in Regions |-> FAdd(filled[first][r], omit_world[r])]]
                      ELSE filled
    IN  Returned("soln_pds_cumulative_funits", Cumsum(first_year))

\* UnitAdoption.soln_pds_tot_iunits_reqd and soln_ref_tot_iunits_reqd
soln_pds_tot_iunits_reqd(self) ==
    IF self.ac.soln_avg_annual_use.is_none
    THEN Returned("soln_pds_tot_iunits_reqd", self.soln_pds_funits_adopted)
    ELSE Returned("soln_pds_tot_iunits_reqd",
                  DivideBy(self.soln_pds_funits_adopted, self.ac.soln_avg_annual_use.x))
soln_ref_tot_iunits_reqd(self) ==
    IF self.ac.soln_avg_annual_use.is_none
    THEN Returned("soln_ref_tot_iunits_reqd", self.soln_ref_funits_adopted)
    ELSE Returned("soln_ref_tot_iunits_reqd",
                  DivideBy(self.soln_ref_funits_adopted, self.ac.soln_avg_annual_use.x))

\* The while loop of the replacement lookback for one year and region: the
\* growth of replacement_year, replacement_year - step, ... while the year is
\* in growth's index; `needed` is the test of line 228 (TRUE where the loop
\* has none).  step is not 0.
RECURSIVE ReplacementsFrom(_, _, _, _, _)
ReplacementsFromBad(growth, region, replacement_year, step, needed) ==
    IF replacement_year \notin DOMAIN growth \/ ~needed THEN Num(0)
    ELSE growth[replacement_year][region]
ReplacementsFrom(growth, region, replacement_year, step, needed) ==
    IF replacement_year \notin DOMAIN growth THEN Num(0)
    ELSE FAdd(IF needed THEN growth[replacement_year][region] ELSE Num(0),
              ReplacementsFrom(growth, region, replacement_year - step, step, needed))

\* growth + replacements of the three new-units accessors.  lifetime is the
\* rounded replacement lifetime of the settings; fa is the adoption table the
\* test of line 228 reads, Nothing where there is no test.
NewIunitsBad(name, tot_iunits, lifetime, fa) ==
    Returned(name, Iloc1(Clip(Diff(tot_iunits))))
NewIunits(name, tot_iunits, lifetime, fa) ==
    LET growth == Iloc1(Clip(Diff(tot_iunits)))
        step == lifetime.v + 1
        Needed(year, region) ==
            \/ fa.is_none
            \/ /\ year - step \in DOMAIN fa.x
               /\ FLeq(fa.x[year - step][region], fa.x[year][region])
        replacements ==
            [year \in DOMAIN growth |-> [region \in Regions |->
                ReplacementsFrom(growth, region, year - step, step,
                                 Needed(year, region))]]
    IN  IF IsNaN(lifetime)
        THEN Raised("ValueError", "cannot convert float NaN to integer")
        ELSE IF step = 0
        THEN Hangs
        ELSE Returned(name, Plus(growth, replacements))

\* UnitAdoption.soln_pds_new_iunits_reqd
soln_pds_new_iunits_reqd(self) ==
    IF self.repeated_cost_for_iunits
    THEN Returned("", Clip(Iloc1(soln_pds_tot_iunits_reqd(self).table)))
    ELSE NewIunits("soln_pds_new_iunits_reqd", soln_pds_tot_iunits_reqd(self).table,
                   self.ac.soln_lifetime_replacement_rounded,
                   Given(self.soln_pds_funits_adopted))

\* UnitAdoption.soln_ref_new_iunits_reqd
soln_ref_new_iunits_reqd(self) ==
    IF self.repeated_cost_for_iunits
    THEN Returned("", Clip(Iloc1(soln_ref_tot_iunits_reqd(self).table)))
    ELSE NewIunits("soln_ref_new_iunits_reqd", soln_ref_tot_iunits_reqd(self).table,
                   self.ac.soln_lifetime_replacement_rounded, Nothing)

\* UnitAdoption.soln_net_annual_funits_adopted
soln_net_annual_funits_adopted(self) ==
    Returned("soln_net_annual_funits_adopted",
             Subtract(self.soln_pds_funits_adopted, self.soln_ref_funits_adopted))

\* UnitAdoption.conv_ref_tot_iunits: land area less adoption for a LAND
\* model, else the rest of the market over the conventional unit's use.
conv_ref_tot_iunits(self) ==
    IF ~self.tla_per_region.is_none
    THEN Returned("conv_ref_tot_iunits",
                  Subtract(self.tla_per_region.x, self.soln_ref_funits_adopted))
    ELSE IF self.ref_tam_per_region.is_none \/ self.ac.conv_avg_annual_use.is_none
    THEN Raised("TypeError", "unsupported operand type(s)")
    ELSE Returned("conv_ref_tot_iunits",
                  DivideBy(Subtract(self.ref_tam_per_region.x,
                                    FillNa(self.soln_ref_funits_adopted)),
                           self.ac.conv_avg_annual_use.x))

\* UnitAdoption.conv_ref_annual_tot_iunits
conv_ref_annual_tot_iunits(self) ==
    IF self.ac.conv_avg_annual_use.is_none
    THEN Returned("conv_ref_annual_tot_iunits", soln_net_annual_funits_adopted(self).table)
    ELSE Returned("conv_ref_annual_tot_iunits",
                  DivideBy(soln_net_annual_funits_adopted(self).table,
                           self.ac.conv_avg_annual_use.x))

\* UnitAdoption.conv_ref_new_iunits
conv_ref_new_iunitsBad(self) ==
    NewIunits("conv_ref_new_iunits", conv_ref_annual_tot_iunits(self).table,
              self.ac.conv_lifetime_replacement_rounded, Nothing)
conv_ref_new_iunits(self) ==
    IF self.repeated_cost_for_iunits
    THEN Returned("", Clip(Iloc1(conv_ref_annual_tot_iunits(self).table)))
    ELSE NewIunits("conv_ref_new_iunits", conv_ref_annual_tot_iunits(self).table,
                   self.ac.conv_lifetime_replacement_rounded, Nothing)

\* ---------------------------------------------------------------- CH4Calcs
\* src/model/ch4calcs.py.  The grid of ch4_ppb_calculator holds products
\* b * e^(-delta/12).  The model keeps such a product as the pair of b and
\* delta, and a sum of products as its coefficient for every delta, so that
\* two values are equal in the model exactly when they are equal as numbers
\* (the powers of e^(-1/12) are linearly independent over the integers).

\* x * k for a finite scalar k.
FMul(a, k) ==
    IF IsNaN(a) \/ IsNaN(k) THEN NaN
    ELSE IF a.inf # 0
    THEN (IF k.v = 0 THEN NaN ELSE Inf(IF k.v > 0 THEN a.inf ELSE 0 - a.inf))
    ELSE Num(a.v * k.v)
Times(table, k) ==
    [y \in DOMAIN table |-> [r \in Regions |-> FMul(table[y][r], k)]]

\* result.loc[:year] = 0.0 and result.loc[year:] = 0.0: label slices of the
\* sorted year index, both ends included.
ZeroUpTo(table, year) ==
    [y \in DOMAIN table |-> IF y <= year THEN [r \in Regions |-> Num(0)] ELSE table[y]]
ZeroFrom(table, year) ==
    [y \in DOMAIN table |-> IF y >= year THEN [r \in Regions |-> Num(0)] ELSE table[y]]

\* CH4Calcs.__init__: stores its arguments.
CH4Calcs__init__(args) == [args EXCEPT !.constructed = TRUE]

\* CH4Calcs.ch4_tons_reduced
ch4_tons_reducedBad(self) ==
    LET net == self.soln_net_annual_funits_adopted
        result == IF self.ac.ch4_is_co2eq THEN Times(net, Num(0))
                  ELSE Times(net, self.ac.ch4_co2_per_funit)
    IN  Returned("ch4_tons_reduced", ZeroUpTo(result, self.ac.report_start_year - 1))
ch4_tons_reduced(self) ==
    LET net == self.soln_net_annual_funits_adopted
        result == IF self.ac.ch4_is_co2eq THEN Times(net, Num(0))
                  ELSE Times(net, self.ac.ch4_co2_per_funit)
    IN  Returned("ch4_tons_reduced",
                 ZeroFrom(ZeroUpTo(result, self.ac.report_start_year - 1),
                          self.ac.report_end_year + 1))

\* CH4Calcs.avoided_direct_emissions_ch4_land
avoided_direct_emissions_ch4_land(self) ==
    IF self.soln_pds_direct_ch4_co2_emissions_saved.is_none
    THEN Raised("AttributeError", "'NoneType' object has no attribute 'copy'")
    ELSE Returned("avoided_direct_emissions_ch4_land",
                  ZeroFrom(ZeroUpTo(self.soln_pds_direct_ch4_co2_emissions_saved.x,
                                    self.ac.report_start_year - 1),
                           self.ac.report_end_year + 1))

\* list(range(2015, 2061)): the pulse columns of the grid end with the last
\* year of the tables.  The tables of the model span Horizon + 1 years where
\* those of the solutions span 2014..2060, and the first column is scaled
\* with them: it is the second year of a table of full length.
columns == (last_year - Horizon + 1)..last_year

\* A cell of the grid: 0.0, NaN, or b * math.exp(-delta / 12) for b # 0.
ZeroCell == [nan |-> FALSE, b |-> 0, delta |-> 0]
NaNCell == [nan |-> TRUE, b |-> 0, delta |-> 0]
DecayedBad(b, delta) ==
    IF IsNaN(b) THEN NaNCell
    ELSE IF b.v = 0 THEN ZeroCell
    ELSE [nan |-> FALSE, b |-> b.v, delta |-> 1]
Decayed(b, delta) ==
    IF IsNaN(b) THEN NaNCell
    ELSE IF b.v = 0 THEN ZeroCell
    ELSE [nan |-> FALSE, b |-> b.v, delta |-> delta]

\* The two loops of ch4_ppb_calculator over a frame of zeros: the column of
\* a year of the index that is a pulse column gets, for delta = 1, 2, ...
\* below last_year - first_year + 1, the decayed pulse in the row of
\* year + delta - 1, until that row is past the last year.
PulseGrid(ch4_tons) ==
    LET index == DOMAIN ch4_tons
        first == FirstIndex(ch4_tons)
        last == CHOOSE y \in index : y + 1 \notin index
    IN  [row \in index |->
            [ PPB |-> ZeroCell,
              Total |-> ZeroCell,
              cells |-> [year \in columns |->
                  LET delta == row - year + 1
                  IN  IF /\ year \in index
                         /\ delta \in 1..(last - first)
                         /\ year + delta - 1 <= last
                      THEN Decayed(ch4_tons[year]["World"], delta)
                      ELSE ZeroCell] ]]

\* DataFrame.sum(axis=1) of one row: every column of the frame is summed, the
\* PPB and Total columns included, and NaN cells are skipped.  The sum is
\* kept as its coefficient of e^(-delta/12) for every delta.
CellCoef(cell, delta) ==
    IF ~cell.nan /\ cell.b # 0 /\ cell.delta = delta THEN cell.b ELSE 0
RECURSIVE SumCoef(_, _, _)
SumCoef(cells, S, delta) ==
    IF S = {} THEN 0
    ELSE LET year == CHOOSE y \in S : TRUE
         IN  CellCoef(cells[year], delta) + SumCoef(cells, S \ {year}, delta)
SumAxis1(row, n) ==
    [delta \in 1..n |->
        CellCoef(row.PPB, delta) + CellCoef(row.Total, delta)
        + SumCoef(row.cells, columns, delta)]

\* CH4Calcs.ch4_ppb_calculator
ch4_ppb_calculator(self) ==
    LET ch4_tons == IF ~self.soln_pds_direct_ch4_co2_emissions_saved.is_none
                    THEN avoided_direct_emissions_ch4_land(self).table
                    ELSE ch4_tons_reduced(self).table
        ppb_calculator == PulseGrid(ch4_tons)
        n == Cardinality(DOMAIN ch4_tons)
    IN  Returned("ch4_ppb_calculator",
            [year \in DOMAIN ppb_calculator |->
                LET total == SumAxis1(ppb_calculator[year], n)
                IN  [ PPB |-> [tons |-> total, per |-> tons_per_ppb],
                      Total |-> total,
                      cells |-> ppb_calculator[year].cells ]])

\* ---------------------------------------------------------- CustomAdoption
\* src/model/customadoption.py.  The scenario tables hold multiples of 6, so
\* that the mean and the population variance of up to three of them are
\* integers; a standard deviation is kept exactly, as a multiple of the root
\* of a square-free number.

\* YEARS = list(range(2012, 2061)), scaled to the last two years: every year
\* is computed on its own.
YEARS == (last_year - 1)..last_year

\* m + c * sqrt(var) for integers m, c and var >= 0, in lowest terms: the
\* largest square is taken out of the root, and a root that vanishes or is
\* whole leaves a plain number.
SquarePart(var) ==
    IF var = 0 THEN 0
    ELSE CHOOSE s \in 1..var :
            /\ var % (s * s) = 0
            /\ \A t \in (s + 1)..var : var % (t * t) # 0
Root(m, c, var) ==
    LET s == SquarePart(var)
    IN  IF var = 0 \/ c = 0 THEN Num(m)
        ELSE IF var = s * s THEN Num(m + c * s)
        ELSE [nan |-> FALSE, inf |-> 0, v |-> m, c |-> c * s, rad |-> var \div (s * s)]

\* The columns of one year of a frame with one column per scenario, as a
\* function from scenario names to values: the names whose value is not NaN,
\* the sum of their values and of their squares.
Present(row) == { n \in DOMAIN row : ~IsNaN(row[n]) }
RECURSIVE SumOf(_, _)
SumOf(row, S) ==
    IF S = {} THEN 0
    ELSE LET n == CHOOSE n \in S : TRUE IN row[n].v + SumOf(row, S \ {n})
RECURSIVE SumSquares(_, _)
SumSquares(row, S) ==
    IF S = {} THEN 0
    ELSE LET n == CHOOSE n \in S : TRUE IN row[n].v * row[n].v + SumSquares(row, S \ {n})
\* DataFrame.mean(axis=1): the mean of the values that are not NaN, NaN when
\* there is none.
MeanAxis1(row) ==
    LET S == Present(row)
    IN  IF S = {} THEN NaN ELSE Num(SumOf(row, S) \div Cardinality(S))
\* The variance of DataFrame.std(axis=1, ddof=0): the mean of the squared
\* deviations of the values that are not NaN, -1 when there is none.
VarAxis1Bad(row) ==
    LET S == Present(row)
        n == Cardinality(S)
    IN  IF n = 0 THEN 0 - 1
        ELSE IF n = 1 THEN 0
        ELSE (n * SumSquares(row, S) - SumOf(row, S) * SumOf(row, S)) \div (n * (n - 1))
VarAxis1(row) ==
    LET S == Present(row)
        n == Cardinality(S)
    IN  IF n = 0 THEN 0 - 1
        ELSE (n * SumSquares(row, S) - SumOf(row, S) * SumOf(row, S)) \div (n * n)

\* generate_df_template(): a frame of NaN over YEARS and the regions.
generate_df_template == [y \in YEARS |-> [r \in Regions |-> NaN]]

\* CustomAdoption.__init__: the frames read from the files of data_sources
\* are checked against YEARS and stored by name, a later source replacing an
\* earlier one of the same name.
RECURSIVE ScenariosFrom(_, _)
ScenariosFrom(data_sources, i) ==
    IF i = 0 THEN <<>>
    ELSE LET d == data_sources[i]
             before == ScenariosFrom(data_sources, i - 1)
         IN  [name \in DOMAIN before \cup {d.name} |->
                 IF name = d.name
                 THEN [df |-> [name |-> "", table |-> d.df], include |-> d.include]
                 ELSE before[name]]
CustomAdoption__init__(args) ==
    IF \E i \in DOMAIN args.data_sources : DOMAIN args.data_sources[i].df # YEARS
    THEN [ret |-> Raised("AssertionError", ""), self |-> args]
    ELSE [ret |-> ReturnedValue(None),
          self |-> [args EXCEPT !.constructed = TRUE,
                                !.scenarios = ScenariosFrom(args.data_sources,
                                                            Len(args.data_sources))]]

\* CustomAdoption._avg_high_low(num_sds): per region, the frame of the
\* columns of that region of the included scenarios in which the region is
\* not blank throughout; its mean per year, and the mean plus and minus
\* num_sds standard deviations.
_avg_high_low(self, num_sds) ==
    LET regions_to_avg ==
            [reg \in Regions |->
                LET names == { name \in DOMAIN self.scenarios :
                                 /\ self.scenarios[name].include
                                 /\ \E y \in YEARS :
                                       ~IsNaN(self.scenarios[name].df.table[y][reg]) }
                IN  [name \in names |-> [y \in YEARS |-> self.scenarios[name].df.table[y][reg]]]]
        row(reg, y) == [name \in DOMAIN regions_to_avg[reg] |-> regions_to_avg[reg][name][y]]
        filled(reg) == DOMAIN regions_to_avg[reg] # {}
        avg_vals(reg, y) == MeanAxis1(row(reg, y))
        offset(reg, y, sign) ==
            IF IsNaN(avg_vals(reg, y)) THEN NaN
            ELSE Root(avg_vals(reg, y).v, sign * num_sds, VarAxis1(row(reg, y)))
    IN  [ avg |-> [y \in YEARS |-> [reg \in Regions |->
                     IF filled(reg) THEN avg_vals(reg, y) ELSE generate_df_template[y][reg]]],
          high |-> [y \in YEARS |-> [reg \in Regions |->
                     IF filled(reg) THEN offset(reg, y, 1) ELSE generate_df_template[y][reg]]],
          low |-> [y \in YEARS |-> [reg \in Regions |->
                     IF filled(reg) THEN offset(reg, y, 0 - 1) ELSE generate_df_template[y][reg]]] ]

\* str.startswith on the names of the runs.
StartsWith(name, prefix) ==
    CASE prefix = "Average of All Custom" ->
            name \in {"Average of All Custom PDS Scenarios", "Average of All Custom Scenarios"}
      [] prefix = "Low of All Custom" ->
            name \in {"Low of All Custom PDS Scenarios", "Low of All Custom Scenarios"}
      [] prefix = "High of All Custom" ->
            name \in {"High of All Custom PDS Scenarios", "High of All Custom Scenarios"}

\* CustomAdoption.adoption_data_per_region: the value returned or raised, and
\* the object after the call.  The frame of a named scenario is copied
\* before the copy is given its name.
adoption_data_per_regionBad(self) ==
    LET name == self.soln_adoption_custom_name
    IN  IF StartsWith(name, "Average of All Custom")
        THEN [ret |-> Returned("adoption_data_per_region", _avg_high_low(self, 1).avg), self |-> self]
        ELSE IF StartsWith(name, "Low of All Custom")
        THEN [ret |-> Returned("adoption_data_per_region", _avg_high_low(self, 1).low), self |-> self]
        ELSE IF StartsWith(name, "High of All Custom")
        THEN [ret |-> Returned("adoption_data_per_region", _avg_high_low(self, 1).high), self |-> self]
        ELSE IF name \in DOMAIN self.scenarios
        THEN [ret |-> Returned("adoption_data_per_region", self.scenarios[name].df.table),
              self |-> [self EXCEPT !.scenarios[name].df.name = "adoption_data_per_region"]]
        ELSE [ret |-> Raised("ValueError", "Unknown adoption name: "), self |-> self]
adoption_data_per_region(self) ==
    LET name == self.soln_adoption_custom_name
    IN  IF StartsWith(name, "Average of All Custom")
        THEN [ret |-> Returned("adoption_data_per_region", _avg_high_low(self, 1).avg), self |-> self]
        ELSE IF StartsWith(name, "Low of All Custom")
        THEN [ret |-> Returned("adoption_data_per_region", _avg_high_low(self, 1).low), self |-> self]
        ELSE IF StartsWith(name, "High of All Custom")
        THEN [ret |-> Returned("adoption_data_per_region", _avg_high_low(self, 1).high), self |-> self]
        ELSE IF name \in DOMAIN self.scenarios
        THEN [ret |-> Returned("adoption_data_per_region", self.scenarios[name].df.table),
              self |-> self]
        ELSE [ret |-> Raised("ValueError", "Unknown adoption name: "), self |-> self]

\* ------------------------------------------------------------------ TAM

\* The index of the forecast frames: the years of the files, scaled to a
\* window around the change of selection between 2014 and 2015.
TamYears == (2015 - Horizon \div 2)..(2015 + (Horizon - 1) \div 2)

\* DataFrame.min(axis=1) and DataFrame.max(axis=1): over the values that are
\* not NaN, NaN when there is none.
MinAxis1(row) ==
    LET S == Present(row)
    IN  IF S = {} THEN NaN
        ELSE Num(CHOOSE v \in { row[n].v : n \in S } : \A n \in S : v <= row[n].v)
MaxAxis1(row) ==
    LET S == Present(row)
    IN  IF S = {} THEN NaN
        ELSE Num(CHOOSE v \in { row[n].v : n \in S } : \A n \in S : v >= row[n].v)
\* DataFrame.std(axis=1, ddof=0): NaN when there is no value.
StdAxis1(row) == IF Present(row) = {} THEN NaN ELSE Root(0, 1, VarAxis1(row))

\* A standard deviation times a multiplier, and a mean plus such a product.
SdTimes(sd, k) ==
    IF IsNaN(sd) THEN NaN
    ELSE IF "rad" \in DOMAIN sd THEN Root(0, k * sd.c, sd.rad)
    ELSE Num(k * sd.v)
PlusSd(m, sd) ==
    IF IsNaN(m) \/ IsNaN(sd) THEN NaN
    ELSE IF "rad" \in DOMAIN sd THEN Root(m.v, sd.c, sd.rad)
    ELSE Num(m.v + sd.v)

\* interpolation.matching_data_sources(data_sources, name, groups_only): the
\* columns a selection stands for.  A named category expands to its member
\* sources, 'ALL SOURCES' to the members of every category, and any other
\* name is a single source.
matching_data_sources(data_sources, name, groups_only) ==
    IF name \in DOMAIN data_sources THEN data_sources[name]
    ELSE IF name = "ALL SOURCES" THEN UNION { data_sources[g] : g \in DOMAIN data_sources }
    ELSE {name}

\* TAM.__init__ and _populate_forecast_data: the World column of the file of
\* every source of every group becomes a column of _forecast_data_global.
TAM__init__(args) ==
    [args EXCEPT !.constructed = TRUE,
                 !._forecast_data_global =
                     [name \in UNION { args.tam_ref_data_sources[g] :
                                         g \in DOMAIN args.tam_ref_data_sources } |->
                         args.files[name]]]

\* One year of a forecast frame restricted to some of its columns:
\* forecast.loc[year, columns].
LocRow(forecast, year, cols) == [name \in cols |-> forecast[name][year]]

\* DataFrame.update(m) on a column that holds old: a value of m that is NaN
\* leaves the column as it was.
Update(old, new) == IF IsNaN(new) THEN old ELSE new

\* TAM._min_max_sd: Min and Max over every column of the forecast; S.D
\* starts at 0 and is updated with the deviation over the columns selected
\* until 2014 in the years up to 2014, over the columns selected after 2014
\* in the later years.
_min_max_sdBad(forecast, tamconfig, data_sources) ==
    LET selected(y) ==
            matching_data_sources(data_sources, tamconfig.source_until_2014, TRUE)
    IN  [y \in TamYears |->
            [c \in {"Min", "Max", "S.D"} |->
                IF c = "Min" THEN MinAxis1(LocRow(forecast, y, DOMAIN forecast))
                ELSE IF c = "Max" THEN MaxAxis1(LocRow(forecast, y, DOMAIN forecast))
                ELSE Update(Num(0), StdAxis1(LocRow(forecast, y, selected(y))))]]
_min_max_sd(forecast, tamconfig, data_sources) ==
    LET selected(y) ==
            IF y <= 2014
            THEN matching_data_sources(data_sources, tamconfig.source_until_2014, TRUE)
            ELSE matching_data_sources(data_sources, tamconfig.source_after_2014, TRUE)
    IN  [y \in TamYears |->
            [c \in {"Min", "Max", "S.D"} |->
                IF c = "Min" THEN MinAxis1(LocRow(forecast, y, DOMAIN forecast))
                ELSE IF c = "Max" THEN MaxAxis1(LocRow(forecast, y, DOMAIN forecast))
                ELSE Update(Num(0), StdAxis1(LocRow(forecast, y, selected(y))))]]

\* TAM._low_med_high: Medium starts at 0 and is updated with the mean over
\* the selected columns, by the same two windows; Low and High lie the
\* configured multiples of the S.D column of min_max_sd below and above it.
_low_med_highBad(forecast, min_max_sd, tamconfig, data_sources) ==
    LET selected(y) ==
            IF y <= 2014
            THEN matching_data_sources(data_sources, tamconfig.source_until_2014, FALSE)
            ELSE matching_data_sources(data_sources, tamconfig.source_after_2014, FALSE)
        Medium(y) == Update(Num(0), MeanAxis1(LocRow(forecast, y, selected(y))))
    IN  [y \in TamYears |->
            [c \in {"Low", "Medium", "High"} |->
                IF c = "Medium" THEN Medium(y)
                ELSE IF c = "Low"
                THEN PlusSd(Medium(y), SdTimes(min_max_sd[y]["S.D"], 0 - tamconfig.high_sd_mult))
                ELSE PlusSd(Medium(y), SdTimes(min_max_sd[y]["S.D"], tamconfig.high_sd_mult))]]
_low_med_high(forecast, min_max_sd, tamconfig, data_sources) ==
    LET selected(y) ==
            IF y <= 2014
            THEN matching_data_sources(data_sources, tamconfig.source_until_2014, FALSE)
            ELSE matching_data_sources(data_sources, tamconfig.source_after_2014, FALSE)
        Medium(y) == Update(Num(0), MeanAxis1(LocRow(forecast, y, selected(y))))
    IN  [y \in TamYears |->
            [c \in {"Low", "Medium", "High"} |->
                IF c = "Medium" THEN Medium(y)
                ELSE IF c = "Low"
                THEN PlusSd(Medium(y), SdTimes(min_max_sd[y]["S.D"], 0 - tamconfig.low_sd_mult))
                ELSE PlusSd(Medium(y), SdTimes(min_max_sd[y]["S.D"], tamconfig.high_sd_mult))]]

\* TAM.forecast_data_global, forecast_min_max_sd_global and
\* forecast_low_med_high_global, for the World row of tamconfig.
forecast_data_global(self) == self._forecast_data_global
forecast_min_max_sd_global(self) ==
    Returned("forecast_min_max_sd_global",
             _min_max_sd(forecast_data_global(self), self.tamconfig, self.tam_ref_data_sources))
forecast_low_med_high_global(self) ==
    Returned("forecast_low_med_high_global",
             _low_med_high(forecast_data_global(self), forecast_min_max_sd_global(self).table,
                           self.tamconfig, self.tam_ref_data_sources))

\* ------------------------------------------------------- objects and caches
\* A DataFrame is an object: two references to one object see the same name
\* attribute.  The heap holds the objects in the order of their creation, a
\* reference is the position of its object.  No accessor of the classes
\* changes the values of a frame after it is built.

\* A new frame, and the reference it gets.
Alloc(h, name, table) == [h EXCEPT !.objects = Append(@, [name |-> name, table |-> table])]
NewRef(h) == Len(h.objects) + 1
\* result.name = name
SetName(h, ref, name) == [h EXCEPT !.objects[ref].name = name]

\* functools.lru_cache() around a method: one cache per function, keyed by
\* the arguments of the call, which are the instance alone; an instance
\* hashes and compares by identity.  The entries are kept from the least to
\* the most recently used; a hit moves its entry to the end, a miss calls the
\* function, appends its result and drops the first entry beyond maxsize
\* (128 in functools, scaled).  call is what the function does to the heap
\* and returns when it is run.
maxsize == 2
Without(entries, key) == SelectSeq(entries, LAMBDA e : e.key # key)
Lookup(entries, key) == SelectSeq(entries, LAMBDA e : e.key = key)
Trimmed(entries) == IF Len(entries) > maxsize THEN Tail(entries) ELSE entries
lru_cacheBad(h, f, key, call) ==
    IF h.cache[f] # <<>>
    THEN [h |-> h, ret |-> h.cache[f][1].ret]
    ELSE [h |-> [call.h EXCEPT !.cache[f] =
                    Trimmed(Append(call.h.cache[f], [key |-> key, ret |-> call.ret]))],
          ret |-> call.ret]
lru_cache(h, f, key, call) ==
    IF Lookup(h.cache[f], key) # <<>>
    THEN [h |-> [h EXCEPT !.cache[f] = Without(@, key) \o Lookup(@, key)],
          ret |-> Lookup(h.cache[f], key)[1].ret]
    ELSE [h |-> [call.h EXCEPT !.cache[f] =
                    Trimmed(Append(call.h.cache[f], [key |-> key, ret |-> call.ret]))],
          ret |-> call.ret]

\* The accessors of UnitAdoption on objects.  self holds the references of
\* the two adoption frames passed to the constructor.  The values of a frame
\* are those of the accessor of the same name above; what is added here is
\* which object is returned and which object is given the name.

\* result = self.soln_pds_funits_adopted; divided only for an RRS model;
\* result.name = "soln_pds_tot_iunits_reqd"
Cached_soln_pds_tot_iunits_reqd(self, h) ==
    lru_cache(h, "soln_pds_tot_iunits_reqd", self.id,
        IF self.ac.soln_avg_annual_use.is_none
        THEN [h |-> SetName(h, self.soln_pds_funits_adopted, "soln_pds_tot_iunits_reqd"),
              ret |-> self.soln_pds_funits_adopted]
        ELSE [h |-> Alloc(h, "soln_pds_tot_iunits_reqd",
                          DivideBy(h.objects[self.soln_pds_funits_adopted].table,
                                   self.ac.soln_avg_annual_use.x)),
              ret |-> NewRef(h)])
Cached_soln_ref_tot_iunits_reqd(self, h) ==
    lru_cache(h, "soln_ref_tot_iunits_reqd", self.id,
        IF self.ac.soln_avg_annual_use.is_none
        THEN [h |-> SetName(h, self.soln_ref_funits_adopted, "soln_ref_tot_iunits_reqd"),
              ret |-> self.soln_ref_funits_adopted]
        ELSE [h |-> Alloc(h, "soln_ref_tot_iunits_reqd",
                          DivideBy(h.objects[self.soln_ref_funits_adopted].table,
                                   self.ac.soln_avg_annual_use.x)),
              ret |-> NewRef(h)])

\* A new-units accessor: with a repeated cost the clipped copy of the total
\* units is returned as it is, without a name; otherwise growth plus
\* replacements is a new frame that gets the accessor's name.  tot is the
\* call of the total-units accessor, fa the frame of the test of line 228.
new_iunits(self, f, tot, lifetime, fa) ==
    IF self.repeated_cost_for_iunits
    THEN [h |-> Alloc(tot.h, "", Clip(Iloc1(tot.h.objects[tot.ret].table))),
          ret |-> NewRef(tot.h)]
    ELSE [h |-> Alloc(tot.h, f, NewIunits(f, tot.h.objects[tot.ret].table, lifetime, fa).table),
          ret |-> NewRef(tot.h)]
Cached_soln_pds_new_iunits_reqd(self, h) ==
    lru_cache(h, "soln_pds_new_iunits_reqd", self.id,
        new_iunits(self, "soln_pds_new_iunits_reqd", Cached_soln_pds_tot_iunits_reqd(self, h),
                   self.ac.soln_lifetime_replacement_rounded,
                   Given(h.objects[self.soln_pds_funits_adopted].table)))
Cached_soln_ref_new_iunits_reqd(self, h) ==
    lru_cache(h, "soln_ref_new_iunits_reqd", self.id,
        new_iunits(self, "soln_ref_new_iunits_reqd", Cached_soln_ref_tot_iunits_reqd(self, h),
                   self.ac.soln_lifetime_replacement_rounded, Nothing))

\* result = self.soln_pds_funits_adopted - self.soln_ref_funits_adopted
Cached_soln_net_annual_funits_adopted(self, h) ==
    lru_cache(h, "soln_net_annual_funits_adopted", self.id,
        [h |-> Alloc(h, "soln_net_annual_funits_adopted",
                     Subtract(h.objects[self.soln_pds_funits_adopted].table,
                              h.objects[self.soln_ref_funits_adopted].table)),
         ret |-> NewRef(h)])

\* result = self.soln_net_annual_funits_adopted(); divided only for an RRS
\* model; result.name = "conv_ref_annual_tot_iunits"
conv_ref_annual_tot_iunits_of(self, net) ==
    IF self.ac.conv_avg_annual_use.is_none
    THEN [h |-> SetName(net.h, net.ret, "conv_ref_annual_tot_iunits"), ret |-> net.ret]
    ELSE [h |-> Alloc(net.h, "conv_ref_annual_tot_iunits",
                      DivideBy(net.h.objects[net.ret].table, self.ac.conv_avg_annual_use.x)),
          ret |-> NewRef(net.h)]
Cached_conv_ref_annual_tot_iunits(self, h) ==
    lru_cache(h, "conv_ref_annual_tot_iunits", self.id,
        conv_ref_annual_tot_iunits_of(self, Cached_soln_net_annual_funits_adopted(self, h)))
Cached_conv_ref_new_iunits(self, h) ==
    lru_cache(h, "conv_ref_new_iunits", self.id,
        new_iunits(self, "conv_ref_new_iunits", Cached_conv_ref_annual_tot_iunits(self, h),
                   self.ac.conv_lifetime_replacement_rounded, Nothing))

\* ------------------------------------------------------------------ state

VARIABLES
    ac,                    \* the settings object passed to HelperTables(ac)
    datapoints,            \* the two datapoint rows the caller passes
                           \* (ref_datapoints / pds_datapoints)
    tam_per_region,        \* the addressable market the caller passes
                           \* (ref_tam_per_region / pds_tam_per_region)
    adoption_low_med_high, \* argument of soln_pds_funits_adopted
    trend_adoption,        \* what model/interpolation.py returns for the source data
    text,                  \* the spreadsheet text given to a string_to_* function
    ua,                    \* the UnitAdoption object: its constructor arguments,
                           \* and whether __init__ has run
    c4,                    \* the CH4Calcs object, likewise
    ca,                    \* the CustomAdoption object, likewise
    tm,                    \* the TAM object, likewise
    heap,                  \* the tables as objects that carry a name attribute,
                           \* and the lru_cache of every accessor
    op,                    \* the last method called, "" before the first call
    result                 \* what that call returned or raised

vars == <<ac, datapoints, tam_per_region, adoption_low_med_high, trend_adoption,
          text, heap, tm, ca, ua, c4, op, result>>

\* ------------------------------------------------------------------ inputs

\* World values; a sub-region has no adoption or the largest.
WorldVals == { Num(Scale * n) : n \in 0..MaxVal }
SubVals == { Num(0), Num(Scale * MaxVal) }

\* The first datapoint row: actual data, a sub-region may have none (NaN).
FirstRows ==
    { [r \in Regions |-> IF r = "World" THEN w ELSE s[r]] :
        w \in WorldVals, s \in [Regions \ {"World"} -> SubVals \cup {NaN}] }
\* The final datapoint row: the callers fill its missing cells with 0.0.
FinalRows ==
    { [r \in Regions |-> IF r = "World" THEN w ELSE s[r]] :
        w \in WorldVals, s \in [Regions \ {"World"} -> SubVals] }
\* Final rows with no regional breakdown (solarpvroof's PDS datapoints).
WorldOnlyFinalRows ==
    { [r \in Regions |-> IF r = "World" THEN w ELSE Num(0)] :
        w \in {Num(0), Num(Scale * MaxVal)} }

\* Every year a table can be indexed by.
MinYear == CHOOSE y \in { p[1] : p \in DatapointYears } :
              \A p \in DatapointYears : y <= p[1]
Years == MinYear..last_year

\* Market sizes over time: the constant 1.0, a large constant, a shrinking one.
TamOne == [y \in Years |-> Num(1)]
TamLarge == [y \in Years |-> Num(Scale * 4 * MaxVal)]
TamShrinking == [y \in Years |-> Num(Scale * (last_year - y))]
TamOf(world, sub) ==
    [y \in Years |-> [r \in Regions |-> IF r = "World" THEN world[y] ELSE sub[y]]]
TamTables ==
    { TamOf(TamOne, TamOne), TamOf(TamLarge, TamLarge),
      TamOf(TamShrinking, TamLarge), TamOf(TamLarge, TamShrinking) }

\* Low / Medium / High of the aggregated sources: Medium -/+ one unit.
LowMedHighTables ==
    { [y \in Years |-> [Low |-> Num(Scale * (y - MinYear)),
                        Medium |-> Num(Scale * (y - MinYear + 1)),
                        High |-> Num(Scale * (y - MinYear + 2))]] }
\* The fitted curve: a series that differs from every source column.
TrendSeries ==
    { [y \in Years |-> Num(Scale * (MaxVal + last_year - y))] }

Sources == { NoSource, SourceList(<<"A">>), SourceList(<<"A", "B">>) }

\* Settings of a run that exercises the Reference table: the PDS settings
\* are left at linear / medium / no source.
ReferenceSettings ==
    [ soln_ref_adoption_regional_data : BOOLEAN,
      soln_pds_adoption_regional_data : {FALSE},
      soln_pds_adoption_basis : {"LINEAR"},
      soln_pds_adoption_prognostication_growth : {"MEDIUM"},
      soln_pds_adoption_prognostication_source : {NoSource},
      soln_pds_adoption_prognostication_trend : {"LINEAR"},
      ref_adoption_use_pds_years : {{}},
      pds_adoption_use_ref_years : {{}} ]

\* Settings of a run that exercises the PDS table, as in the tests:
\* soln_ref_adoption_regional_data=False, with scenario-swap years listed.
PdsSettings ==
    [ soln_ref_adoption_regional_data : {FALSE},
      soln_pds_adoption_regional_data : BOOLEAN,
      soln_pds_adoption_basis : ADOPTION_BASIS,
      soln_pds_adoption_prognostication_growth : ADOPTION_PROGNOSTICATION_GROWTH,
      soln_pds_adoption_prognostication_source : Sources,
      soln_pds_adoption_prognostication_trend : {"LINEAR"},
      ref_adoption_use_pds_years : {{last_year - 1}},
      pds_adoption_use_ref_years : {{last_year}} ]

\* Settings of a run that exercises the trend selection: the prognostication
\* basis with every trend family, and with the trend left unset.
TrendSettings ==
    [ soln_ref_adoption_regional_data : {FALSE},
      soln_pds_adoption_regional_data : {FALSE},
      soln_pds_adoption_basis : {"PROGNOSTICATION"},
      soln_pds_adoption_prognostication_growth : {"MEDIUM"},
      soln_pds_adoption_prognostication_source : Sources,
      soln_pds_adoption_prognostication_trend : ADOPTION_PROGNOSTICATION_TREND \cup {None},
      ref_adoption_use_pds_years : {{}},
      pds_adoption_use_ref_years : {{}} ]

\* Texts of the spreadsheet's trend cell: the names the conversion knows, in
\* several capitalisations, and names it does not know.
NoText == [given |-> FALSE, s |-> ""]
Text(s) == [given |-> TRUE, s |-> s]
TrendNames ==
    { "linear", "Linear", "LINEAR", "2nd poly", "2nd Poly", "2nd_poly", "2nd_Poly",
      "3rd poly", "3rd Poly", "3rd_poly", "3RD_POLY", "exponential", "Exponential",
      "exp", "EXP", "poly", "Poly", "logistic", "Logistic", "" }
TrendTexts ==
    { Text(s) : s \in TrendNames }

\* The value of a variable that belongs to an object the run does not use.
NotUsed == "not used"

InitInputs ==
    /\ adoption_low_med_high \in LowMedHighTables
    /\ trend_adoption \in TrendSeries
    /\ tam_per_region \in TamTables
    /\ ua = NotUsed
    /\ c4 = NotUsed
    /\ ca = NotUsed
    /\ tm = NotUsed
    /\ heap = NotUsed
    /\ op = ""
    /\ result = NotCalled

InitReference ==
    /\ ac \in ReferenceSettings
    /\ text = NoText
    /\ \E years \in DatapointYears, initial \in FirstRows, final \in FinalRows :
          datapoints = [years |-> years, rows |-> <<initial, final>>]
    /\ InitInputs

InitPds ==
    /\ ac \in PdsSettings
    /\ text = NoText
    /\ \E years \in DatapointYears, initial \in FirstRows, final \in WorldOnlyFinalRows :
          datapoints = [years |-> years, rows |-> <<initial, final>>]
    /\ InitInputs

\* A run that converts the trend text and selects the trend function.
InitTrend ==
    /\ ac \in TrendSettings
    /\ text \in TrendTexts
    /\ \E years \in DatapointYears :
          datapoints = [years |-> years,
                        rows |-> << [r \in Regions |-> Num(0)],
                                    [r \in Regions |-> Num(Scale * MaxVal)] >>]
    /\ InitInputs

Init == InitReference \/ InitPds \/ InitTrend

\* ------------------------------------------------------------------ actions

\* ht.soln_ref_funits_adopted(ref_datapoints, ref_tam_per_region)
SolnRefFunitsAdopted ==
    /\ op' = "soln_ref_funits_adopted"
    /\ result' = soln_ref_funits_adopted(ac, datapoints, tam_per_region)
    /\ UNCHANGED <<ac, datapoints, tam_per_region, adoption_low_med_high,
                   trend_adoption, text, heap, tm, ca, ua, c4>>

\* ht.soln_pds_funits_adopted(pds_datapoints, adoption_low_med_high,
\* pds_tam_per_region)
SolnPdsFunitsAdopted ==
    /\ op' = "soln_pds_funits_adopted"
    /\ result' = soln_pds_funits_adopted(ac, datapoints, adoption_low_med_high,
                                         trend_adoption, tam_per_region)
    /\ UNCHANGED <<ac, datapoints, tam_per_region, adoption_low_med_high,
                   trend_adoption, text, heap, tm, ca, ua, c4>>

\* string_to_adoption_prognostication_trend(text), when a text is given
StringToAdoptionPrognosticationTrend ==
    /\ text.given
    /\ op' = "string_to_adoption_prognostication_trend"
    /\ result' = string_to_adoption_prognostication_trend(text.s)
    /\ UNCHANGED <<ac, datapoints, tam_per_region, adoption_low_med_high,
                   trend_adoption, text, heap, tm, ca, ua, c4>>

Next ==
    \/ SolnRefFunitsAdopted
    \/ SolnPdsFunitsAdopted
    \/ StringToAdoptionPrognosticationTrend

Spec == Init /\ [][Next]_vars

\* ------------------------------------------------------------------ unit adoption runs

UaYears == (last_year - Horizon)..last_year
AdoptionLevels == { Num(0), Num(Scale), Num(2 * Scale) }
\* World adoption over the years: every series over the three levels.
WorldSeries == [UaYears -> AdoptionLevels]
\* Series that ramp up and end flat.
RampSeries ==
    { w \in WorldSeries :
        /\ \A y \in UaYears \ {last_year} : w[y].v <= w[y + 1].v
        /\ w[last_year - 1] = w[last_year]
        /\ w[last_year - Horizon] # w[last_year] }

\* The PDS adoption table for a World series w: the first sub-region follows
\* World but has no first-year value, the others mirror World (they fall
\* where World rises).  The Reference table is the mirror of the PDS table.
Mirror(x) == FSub(Num(2 * Scale), x)
PdsAdoption(w) ==
    [y \in UaYears |-> [r \in Regions |->
        IF r = "World" THEN w[y]
        ELSE IF r = SubRegions[1]
        THEN (IF y = last_year - Horizon THEN NaN ELSE w[y])
        ELSE Mirror(w[y])]]
RefAdoption(w) ==
    [y \in UaYears |-> [r \in Regions |-> Mirror(PdsAdoption(w)[y][r])]]
UaMarket == [y \in UaYears |-> [r \in Regions |-> Num(4 * Scale)]]

\* The arguments of UnitAdoption(...), not yet constructed.
UaArgs(w, soln_lifetime, conv_lifetime, soln_use, conv_use, tla, bug, repeated) ==
    [ constructed |-> FALSE,
      ac |-> [ soln_lifetime_replacement_rounded |-> soln_lifetime,
               conv_lifetime_replacement_rounded |-> conv_lifetime,
               soln_avg_annual_use |-> soln_use,
               conv_avg_annual_use |-> conv_use ],
      soln_ref_funits_adopted |-> RefAdoption(w),
      soln_pds_funits_adopted |-> PdsAdoption(w),
      ref_tam_per_region |-> Given(UaMarket),
      tla_per_region |-> tla,
      bug_cfunits_double_count |-> bug,
      repeated_cost_for_iunits |-> repeated ]

\* Runs over every adoption series and lifetime, in both cost modes.
LifetimeRuns ==
    { UaArgs(w, Num(l), Num(l), Given(Num(1)), Given(Num(1)), Nothing, FALSE, rc) :
        w \in WorldSeries, l \in 0..MaxLifetime, rc \in BOOLEAN }
\* Runs over every adoption series with units used twice a year, with and
\* without the double count of the first year.
UseRuns ==
    { UaArgs(w, Num(1), Num(1), Given(Num(u)), Given(Num(3 - u)), Nothing, bug, FALSE) :
        w \in WorldSeries, u \in 1..2, bug \in BOOLEAN }
\* Runs with settings a scenario should not have: a lifetime that is NaN or
\* negative, a use per unit that is zero, NaN or not given; and LAND runs.
OddLifetimes == { NaN, Num(0 - 1), Num(0 - 2), Num(1) }
OddUses == { Given(Num(0)), Given(NaN), Nothing, Given(Num(1)) }
OddRuns ==
    { UaArgs(w, l, l, u, u, tla, FALSE, rc) :
        w \in RampSeries, l \in OddLifetimes, u \in OddUses,
        tla \in {Nothing, Given(UaMarket)}, rc \in BOOLEAN }

InitUnitAdoption ==
    /\ ua \in LifetimeRuns \cup UseRuns \cup OddRuns
    /\ ac = NotUsed
    /\ datapoints = NotUsed
    /\ tam_per_region = NotUsed
    /\ adoption_low_med_high = NotUsed
    /\ trend_adoption = NotUsed
    /\ text = NotUsed
    /\ c4 = NotUsed
    /\ ca = NotUsed
    /\ tm = NotUsed
    /\ heap = NotUsed
    /\ op = ""
    /\ result = NotCalled

\* ua = UnitAdoption(ac, soln_ref_funits_adopted, soln_pds_funits_adopted, ...)
UnitAdoptionInit ==
    /\ ~ua.constructed
    /\ ua' = UnitAdoption__init__(ua)
    /\ op' = "UnitAdoption"
    /\ result' = ReturnedValue(None)
    /\ UNCHANGED <<ac, datapoints, tam_per_region, adoption_low_med_high,
                   trend_adoption, text, heap, tm, ca, c4>>

\* The accessors of the constructed object; none changes the values the
\* object holds.  Which frame object a call returns and names is the subject
\* of the object runs below.
uaInputs == <<ac, datapoints, tam_per_region, adoption_low_med_high, trend_adoption, text, heap, tm, ca, ua, c4>>

\* ua.soln_pds_cumulative_funits()
SolnPdsCumulativeFunits ==
    /\ ua.constructed
    /\ op' = "soln_pds_cumulative_funits"
    /\ result' = soln_pds_cumulative_funits(ua)
    /\ UNCHANGED uaInputs

\* ua.soln_pds_tot_iunits_reqd()
SolnPdsTotIunitsReqd ==
    /\ ua.constructed
    /\ op' = "soln_pds_tot_iunits_reqd"
    /\ result' = soln_pds_tot_iunits_reqd(ua)
    /\ UNCHANGED uaInputs

\* ua.soln_pds_new_iunits_reqd()
SolnPdsNewIunitsReqd ==
    /\ ua.constructed
    /\ op' = "soln_pds_new_iunits_reqd"
    /\ result' = soln_pds_new_iunits_reqd(ua)
    /\ UNCHANGED uaInputs

\* ua.soln_ref_new_iunits_reqd()
SolnRefNewIunitsReqd ==
    /\ ua.constructed
    /\ op' = "soln_ref_new_iunits_reqd"
    /\ result' = soln_ref_new_iunits_reqd(ua)
    /\ UNCHANGED uaInputs

\* ua.conv_ref_tot_iunits()
ConvRefTotIunits ==
    /\ ua.constructed
    /\ op' = "conv_ref_tot_iunits"
    /\ result' = conv_ref_tot_iunits(ua)
    /\ UNCHANGED uaInputs

\* ua.conv_ref_annual_tot_iunits()
ConvRefAnnualTotIunits ==
    /\ ua.constructed
    /\ op' = "conv_ref_annual_tot_iunits"
    /\ result' = conv_ref_annual_tot_iunits(ua)
    /\ UNCHANGED uaInputs

\* ua.conv_ref_new_iunits()
ConvRefNewIunits ==
    /\ ua.constructed
    /\ op' = "conv_ref_new_iunits"
    /\ result' = conv_ref_new_iunits(ua)
    /\ UNCHANGED uaInputs

NextUnitAdoption ==
    \/ UnitAdoptionInit
    \/ SolnPdsCumulativeFunits
    \/ SolnPdsTotIunitsReqd
    \/ SolnPdsNewIunitsReqd
    \/ SolnRefNewIunitsReqd
    \/ ConvRefTotIunits
    \/ ConvRefAnnualTotIunits
    \/ ConvRefNewIunits

SpecUnitAdoption == InitUnitAdoption /\ [][NextUnitAdoption]_vars

\* ---------------------------------------------------------- CH4Calcs runs
\* The tables given to CH4Calcs come from the helper tables and the unit
\* adoption; their index begins with the first year of the datapoints and
\* ends with last_year.  A run takes either the full index or the one that
\* begins a year later, which is the first pulse column.
Ch4Indexes == { UaYears, columns }
Ch4Series(index) == [index -> { Num(0), Num(1), Num(2) }]

\* The table for a World series w: the first sub-region follows World but has
\* no value in the first and in the last year, the others are its negative.
Ch4Table(w) ==
    [y \in DOMAIN w |-> [r \in Regions |->
        IF r = "World" THEN w[y]
        ELSE IF r = SubRegions[1]
        THEN (IF y - 1 \notin DOMAIN w \/ y = last_year THEN NaN ELSE w[y])
        ELSE FNeg(w[y])]]
\* The series w read backwards.
Backwards(w) ==
    LET first == CHOOSE y \in DOMAIN w : y - 1 \notin DOMAIN w
    IN  [y \in DOMAIN w |-> w[first + last_year - y]]

\* The arguments of CH4Calcs(...), not yet constructed.
Ch4Args(w, is_co2eq, per_funit, start, end, direct) ==
    [ constructed |-> FALSE,
      ac |-> [ ch4_is_co2eq |-> is_co2eq,
               ch4_co2_per_funit |-> per_funit,
               report_start_year |-> start,
               report_end_year |-> end ],
      soln_net_annual_funits_adopted |-> Ch4Table(w),
      soln_pds_direct_ch4_co2_emissions_saved |-> direct ]

\* Every World series under the reporting windows that begin in one of the
\* first three years and end in one of the last two.
WindowRuns ==
    UNION { { Ch4Args(w, FALSE, Num(1), start, end, Nothing) :
                w \in Ch4Series(index),
                start \in (last_year - Horizon)..(last_year - Horizon + 2),
                end \in {last_year - 1, last_year} } :
            index \in Ch4Indexes }
\* The settings of the emissions factor and the land variant, on the series
\* that rise by one a year from 0 or from 1.
Ch4Ramps(index) ==
    { w \in Ch4Series(index) :
        \A y \in index : y + 1 \in index => w[y + 1].v >= w[y].v /\ w[y + 1].v <= w[y].v + 1 }
FactorRuns ==
    UNION { { Ch4Args(w, is_co2eq, per_funit, last_year - Horizon + 1, last_year - 1,
                      IF land THEN Given(Ch4Table(Backwards(w))) ELSE Nothing) :
                w \in Ch4Ramps(index), is_co2eq \in BOOLEAN,
                per_funit \in {Num(1), Num(2)}, land \in BOOLEAN } :
            index \in Ch4Indexes }

InitCH4 ==
    /\ c4 \in WindowRuns \cup FactorRuns
    /\ ac = NotUsed
    /\ datapoints = NotUsed
    /\ tam_per_region = NotUsed
    /\ adoption_low_med_high = NotUsed
    /\ trend_adoption = NotUsed
    /\ text = NotUsed
    /\ ua = NotUsed
    /\ ca = NotUsed
    /\ tm = NotUsed
    /\ heap = NotUsed
    /\ op = ""
    /\ result = NotCalled

c4Inputs == <<ac, datapoints, tam_per_region, adoption_low_med_high, trend_adoption, text, heap, tm, ca, ua, c4>>

\* c4 = CH4Calcs(ac, soln_net_annual_funits_adopted, ...)
CH4CalcsInit ==
    /\ ~c4.constructed
    /\ c4' = CH4Calcs__init__(c4)
    /\ op' = "CH4Calcs"
    /\ result' = ReturnedValue(None)
    /\ UNCHANGED <<ac, datapoints, tam_per_region, adoption_low_med_high,
                   trend_adoption, text, heap, tm, ca, ua>>

\* c4.ch4_tons_reduced()
Ch4TonsReduced ==
    /\ c4.constructed
    /\ op' = "ch4_tons_reduced"
    /\ result' = ch4_tons_reduced(c4)
    /\ UNCHANGED c4Inputs

\* c4.avoided_direct_emissions_ch4_land()
AvoidedDirectEmissionsCh4Land ==
    /\ c4.constructed
    /\ op' = "avoided_direct_emissions_ch4_land"
    /\ result' = avoided_direct_emissions_ch4_land(c4)
    /\ UNCHANGED c4Inputs

\* c4.ch4_ppb_calculator()
Ch4PpbCalculator ==
    /\ c4.constructed
    /\ op' = "ch4_ppb_calculator"
    /\ result' = ch4_ppb_calculator(c4)
    /\ UNCHANGED c4Inputs

NextCH4 ==
    \/ CH4CalcsInit
    \/ Ch4TonsReduced
    \/ AvoidedDirectEmissionsCh4Land
    \/ Ch4PpbCalculator

SpecCH4 == InitCH4 /\ [][NextCH4]_vars

\* ----------------------------------------------------- CustomAdoption runs
\* The frame of a scenario for a World value w: World falls from w to
\* 12 - w.  In a full frame the first sub-region is w and the second 12 - w;
\* otherwise the second sub-region is blank, and the first is blank too or
\* lacks its first year.
CaLevels == { 0, 6, 12 }
CaModes == { "full", "no regions", "partial" }
ScenarioFrame(w, mode) ==
    [y \in YEARS |-> [r \in Regions |->
        IF r = "World" THEN (IF y = last_year THEN Num(12 - w) ELSE Num(w))
        ELSE IF r = SubRegions[1]
        THEN (IF mode = "no regions" \/ (mode = "partial" /\ y # last_year) THEN NaN
              ELSE Num(w))
        ELSE (IF mode = "full" THEN Num(12 - w) ELSE NaN)]]
DataSource(name, w, mode, include) ==
    [name |-> name, df |-> ScenarioFrame(w, mode), include |-> include]

\* The lists of data sources: three frames, the second of any kind and
\* included; two frames of any kind; two sources of one name; a frame that
\* lacks a year.
DataSourceLists ==
    { << DataSource("Scenario 1", w1, "full", i1), DataSource("Scenario 2", w2, m2, TRUE),
         DataSource("Scenario 3", w3, "full", i3) >> :
        w1 \in CaLevels, w2 \in CaLevels, w3 \in CaLevels, m2 \in CaModes,
        i1 \in BOOLEAN, i3 \in BOOLEAN }
    \cup
    { << DataSource("Scenario 1", w1, m1, i1), DataSource("Scenario 2", w2, m2, i2) >> :
        w1 \in CaLevels, w2 \in CaLevels, m1 \in CaModes, m2 \in CaModes,
        i1 \in BOOLEAN, i2 \in BOOLEAN }
    \cup
    { << DataSource("Scenario 1", w1, "full", TRUE), DataSource("Scenario 1", w2, "full", TRUE) >> :
        w1 \in CaLevels, w2 \in CaLevels }
    \cup
    { << DataSource("Scenario 1", 6, "full", TRUE),
         [name |-> "Scenario 2", include |-> TRUE,
          df |-> [y \in {last_year} |-> [r \in Regions |-> Num(6)]]] >> }

CustomNames ==
    { "Average of All Custom PDS Scenarios", "Low of All Custom Scenarios",
      "High of All Custom PDS Scenarios", "Scenario 1", "Scenario 3",
      "average of all custom scenarios", "No such scenario" }

InitCustomAdoption ==
    /\ ca \in { [ constructed |-> FALSE, data_sources |-> d, scenarios |-> <<>>,
                  soln_adoption_custom_name |-> n ] :
                d \in DataSourceLists, n \in CustomNames }
    /\ ac = NotUsed
    /\ datapoints = NotUsed
    /\ tam_per_region = NotUsed
    /\ adoption_low_med_high = NotUsed
    /\ trend_adoption = NotUsed
    /\ text = NotUsed
    /\ ua = NotUsed
    /\ c4 = NotUsed
    /\ tm = NotUsed
    /\ heap = NotUsed
    /\ op = ""
    /\ result = NotCalled

caOthers == <<ac, datapoints, tam_per_region, adoption_low_med_high, trend_adoption, text, heap, tm, ua, c4>>

\* ca = CustomAdoption(data_sources, soln_adoption_custom_name)
CustomAdoptionInit ==
    /\ ~ca.constructed
    /\ ca' = CustomAdoption__init__(ca).self
    /\ op' = "CustomAdoption"
    /\ result' = CustomAdoption__init__(ca).ret
    /\ UNCHANGED caOthers

\* ca._avg_high_low(num_sds)
AvgHighLow ==
    /\ ca.constructed
    /\ \E num_sds \in {1, 2} :
          /\ op' = "_avg_high_low"
          /\ result' = [status |-> "ok", num_sds |-> num_sds] @@ _avg_high_low(ca, num_sds)
    /\ UNCHANGED <<ca, caOthers>>

\* ca.adoption_data_per_region()
AdoptionDataPerRegion ==
    /\ ca.constructed
    /\ op' = "adoption_data_per_region"
    /\ result' = adoption_data_per_region(ca).ret
    /\ ca' = adoption_data_per_region(ca).self
    /\ UNCHANGED caOthers

NextCustomAdoption ==
    \/ CustomAdoptionInit
    \/ AvgHighLow
    \/ AdoptionDataPerRegion

SpecCustomAdoption == InitCustomAdoption /\ [][NextCustomAdoption]_vars

\* ------------------------------------------------------------------ TAM runs

\* Three studies in two categories.  The series of a study for a level w: w
\* throughout, w only from 2015 on after zeros, or no value until 2014.
TamSources == { "Study A", "Study B", "Study C" }
TamGroups ==
    [g \in {"Baseline Cases", "Ambitious Cases"} |->
        IF g = "Baseline Cases" THEN {"Study A", "Study B"} ELSE {"Study C"}]
TamModes == { "flat", "rising", "late" }
StudySeries(w, mode) ==
    [y \in TamYears |->
        IF y > 2014 \/ mode = "flat" THEN Num(w)
        ELSE IF mode = "rising" THEN Num(0)
        ELSE NaN]
TamFiles ==
    { [name \in TamSources |->
          IF name = "Study A" THEN StudySeries(wa, ma)
          ELSE IF name = "Study B" THEN StudySeries(wb, mb)
          ELSE StudySeries(wc, mc)] :
        wa \in CaLevels, wb \in CaLevels, wc \in CaLevels,
        ma \in TamModes, mb \in TamModes, mc \in {"flat", "late"} }
TamSelections == { "Baseline Cases", "Ambitious Cases", "ALL SOURCES", "Study B" }
TamConfigs ==
    { [source_until_2014 |-> u, source_after_2014 |-> a, low_sd_mult |-> m[1],
       high_sd_mult |-> m[2]] :
        u \in TamSelections, a \in TamSelections, m \in { <<1, 1>>, <<2, 1>>, <<1, 2>> } }

InitTAM ==
    /\ tm \in { [ constructed |-> FALSE, tamconfig |-> c, tam_ref_data_sources |-> TamGroups,
                  files |-> f, _forecast_data_global |-> <<>> ] :
                c \in TamConfigs, f \in TamFiles }
    /\ ac = NotUsed
    /\ datapoints = NotUsed
    /\ tam_per_region = NotUsed
    /\ adoption_low_med_high = NotUsed
    /\ trend_adoption = NotUsed
    /\ text = NotUsed
    /\ ua = NotUsed
    /\ c4 = NotUsed
    /\ ca = NotUsed
    /\ heap = NotUsed
    /\ op = ""
    /\ result = NotCalled

tmOthers == <<ac, datapoints, tam_per_region, adoption_low_med_high, trend_adoption, text, heap, ca, ua, c4>>

\* tm = TAM(tamconfig, tam_ref_data_sources, tam_pds_data_sources)
TAMInit ==
    /\ ~tm.constructed
    /\ tm' = TAM__init__(tm)
    /\ op' = "TAM"
    /\ result' = ReturnedValue(None)
    /\ UNCHANGED tmOthers

\* tm.forecast_min_max_sd_global()
ForecastMinMaxSdGlobal ==
    /\ tm.constructed
    /\ op' = "forecast_min_max_sd_global"
    /\ result' = forecast_min_max_sd_global(tm)
    /\ UNCHANGED <<tm, tmOthers>>

\* tm.forecast_low_med_high_global()
ForecastLowMedHighGlobal ==
    /\ tm.constructed
    /\ op' = "forecast_low_med_high_global"
    /\ result' = forecast_low_med_high_global(tm)
    /\ UNCHANGED <<tm, tmOthers>>

NextTAM ==
    \/ TAMInit
    \/ ForecastMinMaxSdGlobal
    \/ ForecastLowMedHighGlobal

SpecTAM == InitTAM /\ [][NextTAM]_vars

\* ------------------------------------------------- UnitAdoption object runs
\* One UnitAdoption object whose accessors are called in any order, any
\* number of times.  The two adoption frames exist before the object does:
\* they are what HelperTables returned, and carry the names it gave them.
\* The object holds their references.  A LAND model has no annual use.
UaFunctions ==
    { "soln_pds_tot_iunits_reqd", "soln_ref_tot_iunits_reqd", "soln_pds_new_iunits_reqd",
      "soln_ref_new_iunits_reqd", "soln_net_annual_funits_adopted",
      "conv_ref_annual_tot_iunits", "conv_ref_new_iunits" }
ObjectUses == { Nothing, Given(Num(2)) }
ObjectRuns ==
    { [ id |-> 1, constructed |-> FALSE, w |-> w,
        ac |-> [ soln_lifetime_replacement_rounded |-> Num(1),
                 conv_lifetime_replacement_rounded |-> Num(1),
                 soln_avg_annual_use |-> u, conv_avg_annual_use |-> u ],
        soln_pds_funits_adopted |-> 1, soln_ref_funits_adopted |-> 2,
        repeated_cost_for_iunits |-> rc ] :
        w \in { r \in RampSeries : /\ r[last_year - Horizon] = Num(0)
                                  /\ r[last_year - Horizon + 1] = Num(Scale)
                                  /\ r[last_year] = Num(2 * Scale) },
        u \in ObjectUses, rc \in BOOLEAN }
InputFrames(w) ==
    << [name |-> "soln_pds_funits_adopted", table |-> PdsAdoption(w)],
       [name |-> "soln_ref_funits_adopted", table |-> RefAdoption(w)] >>

\* first records, for every accessor, what its first call returned.
InitObjects ==
    /\ ua \in ObjectRuns
    /\ heap = [ objects |-> InputFrames(ua.w),
                cache |-> [f \in UaFunctions |-> <<>>],
                first |-> [f \in UaFunctions |-> NotCalled] ]
    /\ ac = NotUsed
    /\ datapoints = NotUsed
    /\ tam_per_region = NotUsed
    /\ adoption_low_med_high = NotUsed
    /\ trend_adoption = NotUsed
    /\ text = NotUsed
    /\ c4 = NotUsed
    /\ ca = NotUsed
    /\ tm = NotUsed
    /\ op = ""
    /\ result = NotCalled

objOthers == <<ac, datapoints, tam_per_region, adoption_low_med_high, trend_adoption, text, tm, ca, c4>>

\* ua = UnitAdoption(ac, soln_ref_funits_adopted, soln_pds_funits_adopted, ...)
ObjectInit ==
    /\ ~ua.constructed
    /\ ua' = UnitAdoption__init__(ua)
    /\ op' = "UnitAdoption"
    /\ result' = ReturnedValue(None)
    /\ UNCHANGED <<heap, objOthers>>

\* What the caller of an accessor sees: the reference returned, and the name
\* and the values of its object when the call returns.  The heap after a
\* call r of accessor f, with the first return of f recorded.
Seen(r) == [ref |-> r.ret] @@ Returned(r.h.objects[r.ret].name, r.h.objects[r.ret].table)
Recorded(f, r) == [r.h EXCEPT !.first[f] = IF @ = NotCalled THEN Seen(r) ELSE @]

\* ua.soln_pds_tot_iunits_reqd()
CallSolnPdsTotIunitsReqd ==
    /\ ua.constructed
    /\ op' = "soln_pds_tot_iunits_reqd"
    /\ result' = Seen(Cached_soln_pds_tot_iunits_reqd(ua, heap))
    /\ heap' = Recorded("soln_pds_tot_iunits_reqd", Cached_soln_pds_tot_iunits_reqd(ua, heap))
    /\ UNCHANGED <<ua, objOthers>>

\* ua.soln_ref_tot_iunits_reqd()
CallSolnRefTotIunitsReqd ==
    /\ ua.constructed
    /\ op' = "soln_ref_tot_iunits_reqd"
    /\ result' = Seen(Cached_soln_ref_tot_iunits_reqd(ua, heap))
    /\ heap' = Recorded("soln_ref_tot_iunits_reqd", Cached_soln_ref_tot_iunits_reqd(ua, heap))
    /\ UNCHANGED <<ua, objOthers>>

\* ua.soln_pds_new_iunits_reqd()
CallSolnPdsNewIunitsReqd ==
    /\ ua.constructed
    /\ op' = "soln_pds_new_iunits_reqd"
    /\ result' = Seen(Cached_soln_pds_new_iunits_reqd(ua, heap))
    /\ heap' = Recorded("soln_pds_new_iunits_reqd", Cached_soln_pds_new_iunits_reqd(ua, heap))
    /\ UNCHANGED <<ua, objOthers>>

\* ua.soln_ref_new_iunits_reqd()
CallSolnRefNewIunitsReqd ==
    /\ ua.constructed
    /\ op' = "soln_ref_new_iunits_reqd"
    /\ result' = Seen(Cached_soln_ref_new_iunits_reqd(ua, heap))
    /\ heap' = Recorded("soln_ref_new_iunits_reqd", Cached_soln_ref_new_iunits_reqd(ua, heap))
    /\ UNCHANGED <<ua, objOthers>>

\* ua.soln_net_annual_funits_adopted()
CallSolnNetAnnualFunitsAdopted ==
    /\ ua.constructed
    /\ op' = "soln_net_annual_funits_adopted"
    /\ result' = Seen(Cached_soln_net_annual_funits_adopted(ua, heap))
    /\ heap' = Recorded("soln_net_annual_funits_adopted", Cached_soln_net_annual_funits_adopted(ua, heap))
    /\ UNCHANGED <<ua, objOthers>>

\* ua.conv_ref_annual_tot_iunits()
CallConvRefAnnualTotIunits ==
    /\ ua.constructed
    /\ op' = "conv_ref_annual_tot_iunits"
    /\ result' = Seen(Cached_conv_ref_annual_tot_iunits(ua, heap))
    /\ heap' = Recorded("conv_ref_annual_tot_iunits", Cached_conv_ref_annual_tot_iunits(ua, heap))
    /\ UNCHANGED <<ua, objOthers>>

\* ua.conv_ref_new_iunits()
CallConvRefNewIunits ==
    /\ ua.constructed
    /\ op' = "conv_ref_new_iunits"
    /\ result' = Seen(Cached_conv_ref_new_iunits(ua, heap))
    /\ heap' = Recorded("conv_ref_new_iunits", Cached_conv_ref_new_iunits(ua, heap))
    /\ UNCHANGED <<ua, objOthers>>

NextObjects ==
    \/ ObjectInit
    \/ CallSolnPdsTotIunitsReqd
    \/ CallSolnRefTotIunitsReqd
    \/ CallSolnPdsNewIunitsReqd
    \/ CallSolnRefNewIunitsReqd
    \/ CallSolnNetAnnualFunitsAdopted
    \/ CallConvRefAnnualTotIunits
    \/ CallConvRefNewIunits

SpecObjects == InitObjects /\ [][NextObjects]_vars

\* ---------------------------------------------------------- instance runs
\* Several objects of the classes at once.  An object is identified by the
\* order of its construction, which stands for its identity: the cache of a
\* method holds a reference to every object it has an entry for, so no two
\* objects with an entry can have the same identity.  The accessors taken
\* here build a new frame on every run, so a cache entry holds the frame.
MaxInstances == 3
CachedFunctions == { "ch4_tons_reduced", "soln_pds_cumulative_funits" }
\* The arguments: adoption that rises by a level a year, with two emissions
\* factors for CH4Calcs, with and without the double count for UnitAdoption.
RisingSeries == [y \in UaYears |-> Num(IF y - last_year + 2 > 0 THEN y - last_year + 2 ELSE 0)]
InstanceArgs ==
    { [class |-> "CH4Calcs",
       self |-> Ch4Args(RisingSeries, FALSE, Num(f), last_year - Horizon + 1, last_year,
                        Nothing)] : f \in 1..2 }
    \cup
    { [class |-> "UnitAdoption",
       self |-> UaArgs(RisingSeries, Num(1), Num(1), Given(Num(1)), Given(Num(1)), Nothing,
                       bug, FALSE)] : bug \in BOOLEAN }

InitInstances ==
    /\ heap = [ instances |-> <<>>, cache |-> [f \in CachedFunctions |-> <<>>] ]
    /\ ac = NotUsed
    /\ datapoints = NotUsed
    /\ tam_per_region = NotUsed
    /\ adoption_low_med_high = NotUsed
    /\ trend_adoption = NotUsed
    /\ text = NotUsed
    /\ ua = NotUsed
    /\ c4 = NotUsed
    /\ ca = NotUsed
    /\ tm = NotUsed
    /\ op = ""
    /\ result = NotCalled

instOthers == <<ac, datapoints, tam_per_region, adoption_low_med_high, trend_adoption, text, tm, ca, ua, c4>>

InstancesOf(class) ==
    { i \in 1..Len(heap.instances) : heap.instances[i].class = class }

\* CH4Calcs(...) or UnitAdoption(...): one more object.
NewInstance ==
    /\ Len(heap.instances) < MaxInstances
    /\ \E x \in InstanceArgs :
          /\ heap' = [heap EXCEPT !.instances =
                        Append(@, [x EXCEPT !.self.constructed = TRUE])]
          /\ op' = x.class
          /\ result' = ReturnedValue(None)
    /\ UNCHANGED instOthers

\* c4.ch4_tons_reduced() on one of the CH4Calcs objects
InstanceCh4TonsReduced ==
    /\ \E i \in InstancesOf("CH4Calcs") :
          LET r == lru_cache(heap, "ch4_tons_reduced", i,
                             [h |-> heap, ret |-> ch4_tons_reduced(heap.instances[i].self)])
          IN  /\ op' = "ch4_tons_reduced"
              /\ result' = [instance |-> i] @@ r.ret
              /\ heap' = r.h
    /\ UNCHANGED instOthers

\* ua.soln_pds_cumulative_funits() on one of the UnitAdoption objects
InstanceSolnPdsCumulativeFunits ==
    /\ \E i \in InstancesOf("UnitAdoption") :
          LET r == lru_cache(heap, "soln_pds_cumulative_funits", i,
                             [h |-> heap,
                              ret |-> soln_pds_cumulative_funits(heap.instances[i].self)])
          IN  /\ op' = "soln_pds_cumulative_funits"
              /\ result' = [instance |-> i] @@ r.ret
              /\ heap' = r.h
    /\ UNCHANGED instOthers

NextInstances ==
    \/ NewInstance
    \/ InstanceCh4TonsReduced
    \/ InstanceSolnPdsCumulativeFunits

SpecInstances == InitInstances /\ [][NextInstances]_vars

\* ------------------------------------------------------------------ properties

RefReturned == op = "soln_ref_funits_adopted" /\ result.status = "ok"
PdsCalled == op = "soln_pds_funits_adopted"
PdsReturned == PdsCalled /\ result.status = "ok"
FirstYear == first_valid_index(datapoints)
Year1 == datapoints.years[1]
Year2 == datapoints.years[2]
Adopt1(r) == datapoints.rows[1][r]
Adopt2(r) == datapoints.rows[2][r]

\* a exceeds b: both are numbers and a > b (a missing value exceeds nothing).
Exceeds(a, b) == ~IsNaN(a) /\ ~IsNaN(b) /\ a.v > b.v

\* No cell of the returned table, in the years Ys, exceeds the market.
WithinMarket(Ys) ==
    \A y \in Ys : \A r \in Regions :
        ~Exceeds(result.table[y][r], tam_per_region[y][r])

\* The market is the constant cap in every year and region.
ConstantCap(cap) ==
    \A y \in Years : \A r \in Regions : tam_per_region[y][r] = Num(cap)
BothDatapointsExceed(cap) ==
    \A r \in Regions : Exceeds(Adopt1(r), Num(cap)) /\ Exceeds(Adopt2(r), Num(cap))
EqualsMarket ==
    \A y \in DOMAIN result.table : \A r \in Regions :
        result.table[y][r] = tam_per_region[y][r]

\* C1 as stated: the Reference table never exceeds the addressable market,
\* and whenever both datapoints exceed a constant market cap of 1.0 in every
\* region the table equals the market cap table.
C1_AsStated ==
    RefReturned =>
        /\ WithinMarket(DOMAIN result.table)
        /\ (ConstantCap(1) /\ BothDatapointsExceed(1) => EqualsMarket)

\* C1 (amended): the Reference table never exceeds the addressable market in
\* any year and region; when both datapoints exceed a constant market cap of
\* 1.0 in every region and no region's second datapoint is below its first,
\* the returned table equals the market cap table.
C1_RefMarketCap ==
    RefReturned =>
        /\ WithinMarket(DOMAIN result.table)
        /\ (/\ ConstantCap(1)
            /\ BothDatapointsExceed(1)
            /\ \A r \in Regions : Adopt2(r).v >= Adopt1(r).v
            => EqualsMarket)

\* A Reference table clipped to the constant cap 1.0 from rising datapoints.
C1_Witness ==
    /\ RefReturned
    /\ ConstantCap(1)
    /\ BothDatapointsExceed(1)
    /\ Adopt2("World").v > Adopt1("World").v
    /\ EqualsMarket

\* C2 as stated: the PDS table never exceeds the addressable market in any
\* year of the output, the first datapoint year included.
C2_AsStated == PdsReturned => WithinMarket(DOMAIN result.table)

\* C2 (amended): in every year after the first datapoint year and in every
\* region the PDS table does not exceed the addressable market.
C2_PdsMarketCap ==
    PdsReturned => WithinMarket(DOMAIN result.table \ {FirstYear})

\* A PDS table whose linear World value is clipped to the market in a later year.
C2_Witness ==
    /\ PdsReturned
    /\ ac.soln_pds_adoption_basis = "LINEAR"
    /\ ~ac.soln_pds_adoption_regional_data
    /\ Adopt2("World").v >= Adopt1("World").v
    /\ \E y \in DOMAIN result.table \ {FirstYear} :
          /\ Adopt1("World").v > tam_per_region[y]["World"].v
          /\ result.table[y]["World"] = tam_per_region[y]["World"]

\* The sum of the sub-region columns of a row, missing values counted as 0.
RECURSIVE SubRegionSumFrom(_, _)
SubRegionSumFrom(row, i) ==
    IF i > Len(SubRegions) THEN 0
    ELSE (IF IsNaN(row[SubRegions[i]]) THEN 0 ELSE row[SubRegions[i]].v)
         + SubRegionSumFrom(row, i + 1)
WorldIsSum(row) == row["World"] = Num(SubRegionSumFrom(row, 1))

\* The regional-aggregation flag of the scenario whose table was returned.
AggregationEnabled ==
    \/ RefReturned /\ ac.soln_ref_adoption_regional_data
    \/ PdsReturned /\ ac.soln_pds_adoption_regional_data

\* Every value of the returned table in year y lies below its market cap:
\* the cap is binding on no column of that year.
BelowCap(y) ==
    \A r \in Regions :
        ~IsNaN(result.table[y][r]) => result.table[y][r].v < tam_per_region[y][r].v

\* C3 as stated: with the regional-aggregation flag enabled, World equals
\* the sum of the sub-region columns in every year of the returned table,
\* after capping and any datapoint override.
C3_AsStated ==
    AggregationEnabled => \A y \in DOMAIN result.table : WorldIsSum(result.table[y])

\* C3 (amended): with the regional-aggregation flag enabled, World equals the
\* sum of the sub-region columns (missing values counted as 0) in every year
\* of the returned table in which the market cap is binding on no column and
\* which, for PDS, is not the first datapoint year.
C3_RegionalSum ==
    AggregationEnabled =>
        \A y \in DOMAIN result.table :
            (BelowCap(y) /\ (PdsReturned => y # FirstYear))
                => WorldIsSum(result.table[y])

\* A Reference table whose World column was replaced by the regional sum.
C3_Witness ==
    /\ RefReturned
    /\ ac.soln_ref_adoption_regional_data
    /\ \E y \in DOMAIN result.table :
          /\ BelowCap(y)
          /\ WorldIsSum(result.table[y])
          /\ result.table[y]["World"].v > 0
          /\ result.table[y]["World"] # LinearValue(datapoints, "World", y)

\* (Year2 - Year1) times the value at year y of the line through the two
\* datapoints of region r.
LineTimesSpan(r, y) ==
    Adopt1(r).v * (Year2 - Year1) + (y - Year1) * (Adopt2(r).v - Adopt1(r).v)

\* C4: with the aggregation override off, every cell of the Reference table
\* on which the market cap is not binding lies on the straight line through
\* the two datapoints: value(year) = v1 + (year - y1)/(y2 - y1) * (v2 - v1),
\* so value(y1) = v1 and value(y2) = v2.
C4_LinearStitch ==
    (RefReturned /\ ~ac.soln_ref_adoption_regional_data) =>
        \A r \in Regions : \A y \in DOMAIN result.table :
            (/\ ~IsNaN(Adopt1(r)) /\ ~IsNaN(Adopt2(r))
             /\ LineTimesSpan(r, y) <= tam_per_region[y][r].v * (Year2 - Year1))
            => /\ ~IsNaN(result.table[y][r])
               /\ result.table[y][r].v * (Year2 - Year1) = LineTimesSpan(r, y)
               /\ (y = Year1 => result.table[y][r] = Adopt1(r))
               /\ (y = Year2 => result.table[y][r] = Adopt2(r))

\* A Reference table holding the midpoint of two different World datapoints.
C4_Witness ==
    /\ RefReturned
    /\ ~ac.soln_ref_adoption_regional_data
    /\ Year2 = Year1 + 2
    /\ Adopt1("World").v < Adopt2("World").v
    /\ Adopt2("World").v <= tam_per_region[Year2]["World"].v
    /\ result.table[Year1]["World"] = Adopt1("World")
    /\ result.table[Year2]["World"] = Adopt2("World")
    /\ result.table[Year1 + 1]["World"].v * 2 = Adopt1("World").v + Adopt2("World").v

\* C5 as stated: the PDS table reproduces the datapoint value at every year
\* at which a datapoint exists, in every region.
C5_AsStated ==
    PdsReturned =>
        \A i \in {1, 2} : \A r \in Regions :
            (datapoints.years[i] \in DOMAIN result.table /\ ~IsNaN(datapoints.rows[i][r]))
                => result.table[datapoints.years[i]][r] = datapoints.rows[i][r]

\* C5 (amended): at the first datapoint year, and in every region that has a
\* datapoint there, the PDS table reproduces the datapoint value, whatever
\* the adoption basis, the single-source shortcut, the market or the
\* computed curve say.
C5_KnownValue ==
    PdsReturned =>
        \A r \in Regions :
            ~IsNaN(Adopt1(r)) => result.table[FirstYear][r] = Adopt1(r)

\* A PDS table whose first-year World value is the datapoint although the
\* computed table held another value there.
C5_Witness ==
    /\ PdsReturned
    /\ FirstYear = Year1
    /\ PdsComputed(ac, datapoints, adoption_low_med_high, trend_adoption,
                   tam_per_region).table[FirstYear]["World"] # Adopt1("World")
    /\ result.table[FirstYear]["World"] = Adopt1("World")

\* The two tables the object computes from the inputs of the state.
RefTable == soln_ref_funits_adopted(ac, datapoints, tam_per_region)
PdsTable ==
    soln_pds_funits_adopted(ac, datapoints, adoption_low_med_high, trend_adoption,
                            tam_per_region)
ComputedPds ==
    PdsComputed(ac, datapoints, adoption_low_med_high, trend_adoption, tam_per_region)

\* C6: in every Reference year the configuration lists as using PDS values
\* the Reference table's World value equals the PDS table's computed World
\* value of that year, and in every PDS year listed as using Reference values
\* the PDS table's World value equals the Reference table's computed one.
C6_ScenarioSwap ==
    /\ (RefReturned /\ PdsTable.status = "ok") =>
          \A y \in ac.ref_adoption_use_pds_years \cap DOMAIN result.table :
              result.table[y]["World"] = PdsTable.table[y]["World"]
    /\ (PdsReturned /\ RefTable.status = "ok") =>
          \A y \in ac.pds_adoption_use_ref_years \cap DOMAIN result.table :
              result.table[y]["World"] = RefTable.table[y]["World"]

\* C7: with the S-curve or the custom S-curve basis, computing the PDS
\* adoption raises the not-implemented error and returns no table, whatever
\* the other settings are.
C7_SCurveNotImplemented ==
    (PdsCalled /\ ac.soln_pds_adoption_basis \in {"S_CURVE", "CUSTOM_S_CURVE"}) =>
        (result.status = "raised" /\ result.exc = "NotImplementedError")

\* The configuration names exactly one prognostication source.
NamesOneSource ==
    /\ ~ac.soln_pds_adoption_prognostication_source.is_none
    /\ Len(ac.soln_pds_adoption_prognostication_source.items) = 1

\* The source series of the configured growth tier, at year y.
SourceValue(y) ==
    CASE ac.soln_pds_adoption_prognostication_growth = "LOW"
            -> adoption_low_med_high[y].Low
      [] ac.soln_pds_adoption_prognostication_growth = "MEDIUM"
            -> adoption_low_med_high[y].Medium
      [] ac.soln_pds_adoption_prognostication_growth = "HIGH"
            -> adoption_low_med_high[y].High

\* x clipped to the World market of year y.
ClippedToWorldMarket(x, y) ==
    IF x.v <= tam_per_region[y]["World"].v THEN x ELSE tam_per_region[y]["World"]

C9_FullyCustom ==
    LET custom_scen == [y \in Years |-> [r \in Regions |-> Num(Scale)]]
    IN  (PdsCalled /\ ac.soln_pds_adoption_basis = "FULLY_CUSTOM") =>
            /\ result.status = "ok"
            /\ \A y \in DOMAIN result.table \ {FirstYear} : \A r \in Regions :
                  result.table[y][r] = PyMin(custom_scen[y][r], tam_per_region[y][r])
            /\ \A r \in Regions : result.table[FirstYear][r] = Adopt1(r)

\* C10: in the first-year row of the PDS table, a region whose first-year
\* datapoint is missing keeps the computed adoption value and a region whose
\* datapoint is present takes the datapoint.
C10_MissingDatapoint ==
    PdsReturned =>
        \A r \in Regions :
            /\ IsNaN(Adopt1(r)) =>
                  result.table[FirstYear][r] = ComputedPds.table[FirstYear][r]
            /\ ~IsNaN(Adopt1(r)) => result.table[FirstYear][r] = Adopt1(r)

\* The names string_to_adoption_prognostication_trend knows, in lower case.
KnownTrendNames ==
    {"linear", "2nd poly", "2nd_poly", "3rd poly", "3rd_poly", "exponential", "exp"}

\* C11: an unknown trend family is an invalid-argument error: converting a
\* text that names none raises ValueError, and selecting the trend function
\* for a trend setting that is no member of the trend families raises too
\* instead of returning no function or a default one.
C11_UnknownTrend ==
    /\ (op = "string_to_adoption_prognostication_trend"
          /\ Lower(text.s) \notin KnownTrendNames) =>
            (result.status = "raised" /\ result.exc = "ValueError")
    /\ (PdsCalled /\ ~NamesOneSource
          /\ ac.soln_pds_adoption_basis = "PROGNOSTICATION"
          /\ ac.soln_pds_adoption_prognostication_trend
                \notin ADOPTION_PROGNOSTICATION_TREND) =>
            _get_trend_func(ac).status = "raised"

\* The part of C11 the conversion function satisfies: a text that names no
\* trend family raises ValueError, a text that names one returns a member.
C11_ConversionRaises ==
    op = "string_to_adoption_prognostication_trend" =>
        IF Lower(text.s) \in KnownTrendNames
        THEN result.status = "ok" /\ result.value \in ADOPTION_PROGNOSTICATION_TREND
        ELSE result.status = "raised" /\ result.exc = "ValueError"

\* ------------------------------------------------------------------ unit adoption properties

UaCalled(name) == op = name
UaReturned(name) == UaCalled(name) /\ result.status = "ok"
DefaultMode == ~ua.repeated_cost_for_iunits
\* A replacement lifetime of n >= 0 years.
IsLifetime(l) == ~IsNaN(l) /\ l.v >= 0

\* The years of the output: every year of the adoption table after the first.
OutputYears == UaYears \ {last_year - Horizon}

\* adoption / use per unit, the adoption itself when no use is given.
PerUnit(x, use) == IF use.is_none THEN x ELSE FDiv(x, use.x)
\* total implementation units of the PDS, the Reference and the conventional
\* series
PdsTotal(y, r) == PerUnit(ua.soln_pds_funits_adopted[y][r], ua.ac.soln_avg_annual_use)
RefTotal(y, r) == PerUnit(ua.soln_ref_funits_adopted[y][r], ua.ac.soln_avg_annual_use)
ConvTotal(y, r) ==
    PerUnit(FSub(ua.soln_pds_funits_adopted[y][r], ua.soln_ref_funits_adopted[y][r]),
            ua.ac.conv_avg_annual_use)

\* max(0, x), not available when x is not.
Max0(x) == IF IsNaN(x) THEN NaN ELSE IF FLeq(Num(0), x) THEN x ELSE Num(0)
\* Growth of the PDS total in year y: max(0, total[y] - total[y-1]).
PdsGrowth(y, r) == Max0(FSub(PdsTotal(y, r), PdsTotal(y - 1, r)))

\* The replacement years of year y for lifetime n: y - k*(n+1), k = 1, 2, ...,
\* inside the output.
ReplacementYears(y, n) ==
    { ry \in OutputYears : ry < y /\ (y - ry) % (n + 1) = 0 }
RECURSIVE SumPdsGrowth(_, _)
SumPdsGrowth(S, r) ==
    IF S = {} THEN Num(0)
    ELSE LET ry == CHOOSE z \in S : TRUE
         IN  FAdd(PdsGrowth(ry, r), SumPdsGrowth(S \ {ry}, r))
\* Adoption at (y - n - 1) does not exceed adoption at y.
NoDecline(y, n, r) ==
    LET fa == ua.soln_pds_funits_adopted
    IN  ~Exceeds(fa[y - n - 1][r], fa[y][r])

\* C12: in the default mode, for every region and every year after the first,
\* soln_pds_new_iunits_reqd is max(0, total[year] - total[year-1]) plus, when
\* adoption at (year - lifetime - 1) does not exceed adoption at year, the
\* growth of every replacement year year - k*(lifetime + 1), k = 1, 2, ...,
\* inside the output.
C12_NewUnitsRequired ==
    (UaCalled("soln_pds_new_iunits_reqd") /\ DefaultMode
        /\ IsLifetime(ua.ac.soln_lifetime_replacement_rounded)) =>
        LET n == ua.ac.soln_lifetime_replacement_rounded.v
        IN  /\ result.status = "ok"
            /\ DOMAIN result.table = OutputYears
            /\ \A y \in OutputYears : \A r \in Regions :
                  result.table[y][r] =
                      FAdd(PdsGrowth(y, r),
                           IF ReplacementYears(y, n) # {} /\ NoDecline(y, n, r)
                           THEN SumPdsGrowth(ReplacementYears(y, n), r)
                           ELSE Num(0))

\* A table of new units where one cell adds the growth of two replacement
\* years and another adds none because adoption declined.
C12_Witness ==
    /\ UaReturned("soln_pds_new_iunits_reqd")
    /\ DefaultMode
    /\ IsLifetime(ua.ac.soln_lifetime_replacement_rounded)
    /\ LET n == ua.ac.soln_lifetime_replacement_rounded.v
       IN  /\ \E y \in OutputYears : \E r \in Regions :
                /\ \E a, b \in ReplacementYears(y, n) :
                      a # b /\ PdsGrowth(a, r).v > 0 /\ PdsGrowth(b, r).v > 0
                /\ NoDecline(y, n, r)
                /\ result.table[y][r].v > PdsGrowth(y, r).v
           /\ \E y \in OutputYears : \E r \in Regions :
                /\ ReplacementYears(y, n) # {}
                /\ ~NoDecline(y, n, r)
                /\ SumPdsGrowth(ReplacementYears(y, n), r).v > 0
                /\ result.table[y][r] = PdsGrowth(y, r)

\* The total implementation units and the adoption table that the new-units
\* accessor `name` works from, its growth, and the sum of the growth of a set
\* of years.
TotalOf(name, y, r) ==
    IF name = "soln_pds_new_iunits_reqd" THEN PdsTotal(y, r)
    ELSE IF name = "soln_ref_new_iunits_reqd" THEN RefTotal(y, r)
    ELSE ConvTotal(y, r)
AdoptionOf(name) ==
    IF name = "soln_pds_new_iunits_reqd" THEN ua.soln_pds_funits_adopted
    ELSE ua.soln_ref_funits_adopted
LifetimeOf(name) ==
    IF name = "conv_ref_new_iunits" THEN ua.ac.conv_lifetime_replacement_rounded
    ELSE ua.ac.soln_lifetime_replacement_rounded
GrowthOf(name, y, r) == Max0(FSub(TotalOf(name, y, r), TotalOf(name, y - 1, r)))
RECURSIVE SumGrowth(_, _, _)
SumGrowth(name, S, r) ==
    IF S = {} THEN Num(0)
    ELSE LET ry == CHOOSE z \in S : TRUE
         IN  FAdd(GrowthOf(name, ry, r), SumGrowth(name, S \ {ry}, r))

\* No value of the table is negative.
NeverNegative(table) ==
    \A y \in DOMAIN table : \A r \in Regions : ~Exceeds(Num(0), table[y][r])
\* Adoption of region r ramps up (never down) until year t and is flat from
\* year t on.
FlatAfterRamp(fa, r, t) ==
    /\ \A y \in UaYears : y < t => ~Exceeds(fa[y][r], fa[y + 1][r])
    /\ \A y \in UaYears : y > t => fa[y][r] = fa[t][r]
\* The use per unit is not given or a positive number, so that the total
\* implementation units are numbers wherever adoption is.
UsableUse(use) == use.is_none \/ (~IsNaN(use.x) /\ use.x.v > 0)
\* The solution accessors of new units required.
SolnNewIunits == {"soln_pds_new_iunits_reqd", "soln_ref_new_iunits_reqd"}

\* After a ramp that ends in year t, the new units of every later year are
\* the growth of the replacement years and nothing else.
ReplacementOnly(name) ==
    LET n == LifetimeOf(name).v
    IN  \A r \in Regions : \A t \in UaYears :
            FlatAfterRamp(AdoptionOf(name), r, t) =>
                \A y \in OutputYears :
                    y > t => result.table[y][r] =
                                SumGrowth(name, ReplacementYears(y, n), r)

\* C13 as stated: new units required are never negative, and where adoption
\* is flat after an initial ramp they equal the replacement-only
\* contribution in every year after the ramp, in either cost mode.
C13_AsStated ==
    \A name \in SolnNewIunits :
        (UaReturned(name) /\ IsLifetime(LifetimeOf(name))
            /\ UsableUse(ua.ac.soln_avg_annual_use)) =>
            (NeverNegative(result.table) /\ ReplacementOnly(name))

\* C13: new units required are never negative (in either cost mode), and in
\* the default mode, where adoption is flat after an initial ramp, they equal
\* the replacement-only contribution in every year after the ramp.
C13_ReplacementIdempotence ==
    \A name \in SolnNewIunits :
        /\ UaReturned(name) => NeverNegative(result.table)
        /\ (UaReturned(name) /\ DefaultMode /\ IsLifetime(LifetimeOf(name))
              /\ UsableUse(ua.ac.soln_avg_annual_use)) =>
              ReplacementOnly(name)

\* A PDS run in the default mode where World ramps up, stays flat, and a year
\* after the ramp needs replacement units only.
C13_Witness ==
    /\ UaReturned("soln_pds_new_iunits_reqd")
    /\ DefaultMode
    /\ IsLifetime(ua.ac.soln_lifetime_replacement_rounded)
    /\ UsableUse(ua.ac.soln_avg_annual_use)
    /\ \E t \in OutputYears : \E y \in OutputYears :
          /\ y > t
          /\ FlatAfterRamp(ua.soln_pds_funits_adopted, "World", t)
          /\ PdsGrowth(t, "World").v > 0
          /\ PdsGrowth(y, "World") = Num(0)
          /\ result.table[y]["World"].v > 0
          /\ result.table[y]["World"] =
                SumGrowth("soln_pds_new_iunits_reqd",
                          ReplacementYears(y, ua.ac.soln_lifetime_replacement_rounded.v),
                          "World")

\* The three accessors of new units required.
NewIunitsAccessors == SolnNewIunits \cup {"conv_ref_new_iunits"}

\* C14: in repeated-cost mode the new units required of the PDS solution, the
\* Reference solution and the conventional series are the total
\* implementation units of every year from the second on, clipped at 0: no
\* growth differencing, no replacement term, whatever the lifetime is.
C14_RepeatedCost ==
    \A name \in NewIunitsAccessors :
        (UaCalled(name) /\ ua.repeated_cost_for_iunits) =>
            /\ result.status = "ok"
            /\ DOMAIN result.table = OutputYears
            /\ \A y \in OutputYears : \A r \in Regions :
                  result.table[y][r] = Max0(TotalOf(name, y, r))

\* A repeated-cost run of the conventional series with a negative total
\* clipped to 0 and a positive total, unchanged since the year before,
\* returned whole.
C14_Witness ==
    /\ UaReturned("conv_ref_new_iunits")
    /\ ua.repeated_cost_for_iunits
    /\ \E y \in OutputYears : \E r \in Regions :
          ConvTotal(y, r).v < 0 /\ result.table[y][r] = Num(0)
    /\ \E y \in OutputYears : \E r \in Regions :
          /\ ConvTotal(y, r).v > 0
          /\ ConvTotal(y, r) = ConvTotal(y - 1, r)
          /\ result.table[y][r] = ConvTotal(y, r)

\* PDS adoption of year y and region r with a missing value counted as 0,
\* and its sum over a set of years.
Adopted0(y, r) ==
    IF IsNaN(ua.soln_pds_funits_adopted[y][r]) THEN 0
    ELSE ua.soln_pds_funits_adopted[y][r].v
RECURSIVE SumAdopted0(_, _)
SumAdopted0(S, r) ==
    IF S = {} THEN 0
    ELSE LET z == CHOOSE z \in S : TRUE
         IN  Adopted0(z, r) + SumAdopted0(S \ {z}, r)
RunningSum(y, r) == SumAdopted0({ z \in UaYears : z <= y }, r)

\* C15 as stated: cumulative units are the running sum of adoption with
\* missing values as 0; with the double-count flag set the first-year
\* addition goes to World only, and every other region's series equals its
\* value with the flag unset.
C15_AsStated ==
    UaCalled("soln_pds_cumulative_funits") =>
        /\ result.status = "ok"
        /\ \A y \in UaYears : \A r \in Regions :
              (~ua.bug_cfunits_double_count \/ r # "World") =>
                  result.table[y][r] = Num(RunningSum(y, r))

\* C15: cumulative units are the running sum of adoption with missing values
\* as 0; with the double-count flag set, the first-year adoption of every
\* region other than World is added once more from the first year on, and
\* World's series is the one left untouched.
C15_CumulativeUnits ==
    UaCalled("soln_pds_cumulative_funits") =>
        /\ result.status = "ok"
        /\ DOMAIN result.table = UaYears
        /\ \A y \in UaYears : \A r \in Regions :
              result.table[y][r] =
                  IF ua.bug_cfunits_double_count /\ r # "World"
                  THEN Num(RunningSum(y, r) + Adopted0(last_year - Horizon, r))
                  ELSE Num(RunningSum(y, r))

\* A run with the flag set where World and another region both have a
\* first-year adoption, only the other region's is counted twice, and a
\* region without a first-year value starts its sum from 0.
C15_Witness ==
    /\ UaReturned("soln_pds_cumulative_funits")
    /\ ua.bug_cfunits_double_count
    /\ LET first == last_year - Horizon
       IN  /\ Adopted0(first, "World") > 0
           /\ result.table[first]["World"] = Num(Adopted0(first, "World"))
           /\ \E r \in Regions \ {"World"} :
                 /\ Adopted0(first, r) > 0
                 /\ result.table[first][r] = Num(2 * Adopted0(first, r))
           /\ \E r \in Regions :
                 /\ IsNaN(ua.soln_pds_funits_adopted[first][r])
                 /\ result.table[first][r] = Num(0)

\* Both configured replacement lifetimes are numbers of years >= 0.
LifetimesValid ==
    /\ IsLifetime(ua.ac.soln_lifetime_replacement_rounded)
    /\ IsLifetime(ua.ac.conv_lifetime_replacement_rounded)

\* C16: constructing a UnitAdoption with a negative or NaN replacement
\* lifetime (solution or conventional) raises, so that no object with such a
\* lifetime exists and no accessor runs the replacement lookback with it.
C16_LifetimeCheckedAtConstruction ==
    /\ (UaCalled("UnitAdoption") /\ ~LifetimesValid) => result.status = "raised"
    /\ ua.constructed => LifetimesValid

\* C17: a division by a zero or not-available average annual use raises
\* nothing and leaves every cell of the total implementation units not
\* available, never plus or minus infinity.
C17_DivisionNotAvailable ==
    \A name \in {"soln_pds_tot_iunits_reqd", "conv_ref_tot_iunits", "conv_ref_annual_tot_iunits"} :
        LET use == IF name = "soln_pds_tot_iunits_reqd" THEN ua.ac.soln_avg_annual_use
                   ELSE ua.ac.conv_avg_annual_use
            divides == name = "conv_ref_tot_iunits" => ua.tla_per_region.is_none
        IN  (UaCalled(name) /\ divides /\ ~use.is_none /\ (IsNaN(use.x) \/ use.x.v = 0)) =>
                /\ result.status = "ok"
                /\ \A y \in DOMAIN result.table : \A r \in Regions :
                      IsNaN(result.table[y][r])

\* ---------------------------------------------------- CH4Calcs properties
\* The table the avoided emissions are taken from: the direct emissions of
\* the land variant when given, the net adoption otherwise.
Ch4Source ==
    IF c4.soln_pds_direct_ch4_co2_emissions_saved.is_none
    THEN c4.soln_net_annual_funits_adopted
    ELSE c4.soln_pds_direct_ch4_co2_emissions_saved.x
Ch4Years == DOMAIN Ch4Source
InWindow(y) == c4.ac.report_start_year <= y /\ y <= c4.ac.report_end_year
\* Emissions avoided per unit of the table: 1 for the direct emissions,
\* nothing for a solution accounted in CO2 equivalents.
Ch4Factor ==
    IF ~c4.soln_pds_direct_ch4_co2_emissions_saved.is_none THEN Num(1)
    ELSE IF c4.ac.ch4_is_co2eq THEN Num(0)
    ELSE c4.ac.ch4_co2_per_funit
\* The World emission avoided in year y that acts as a pulse.
PulseOf(y) == IF InWindow(y) THEN FMul(Ch4Source[y]["World"], Ch4Factor) ELSE Num(0)
\* The years that have a pulse column in the grid.
PulseYears == Ch4Years \cap columns

\* C18: in the grid returned by ch4_ppb_calculator, for every pulse year Y
\* with World emission b and every atmospheric year A >= Y of the horizon,
\* the cell (A, Y) is b * e^(-delta/12) with delta = A - Y + 1, and every
\* cell with A < Y is 0.
C18_PulseDecay ==
    UaReturned("ch4_ppb_calculator") =>
        \A Y \in PulseYears : \A A \in Ch4Years :
            result.table[A].cells[Y] =
                IF A >= Y THEN Decayed(PulseOf(Y), A - Y + 1) ELSE ZeroCell

\* C19: Total of atmospheric year A is the sum of the decayed pulses of all
\* pulse years Y <= A, the pulse of year Y entering with e^(-(A-Y+1)/12), and
\* nothing else enters it (the Total and PPB columns do not).
C19_TotalAccumulates ==
    UaReturned("ch4_ppb_calculator") =>
        \A A \in Ch4Years :
            result.table[A].Total =
                [delta \in 1..Cardinality(Ch4Years) |->
                    IF A - delta + 1 \in PulseYears
                    THEN PulseOf(A - delta + 1).v ELSE 0]

\* The avoided-emissions accessors.
Ch4SeriesAccessors == {"ch4_tons_reduced", "avoided_direct_emissions_ch4_land"}

\* C20: the reduced-emissions series is 0 in every year before
\* report_start_year and after report_end_year, whatever the table holds
\* there, and keeps the emissions of the years in between; in the grid the
\* column of a year outside the window is 0 throughout, and Total and PPB
\* have no term of a pulse from outside the window.
C20_ReportingWindow ==
    /\ (op \in Ch4SeriesAccessors /\ result.status = "ok") =>
          /\ DOMAIN result.table = Ch4Years
          /\ \A y \in Ch4Years : \A r \in Regions :
                result.table[y][r] =
                    IF InWindow(y)
                    THEN (IF op = "ch4_tons_reduced"
                          THEN FMul(c4.soln_net_annual_funits_adopted[y][r],
                                    IF c4.ac.ch4_is_co2eq THEN Num(0)
                                    ELSE c4.ac.ch4_co2_per_funit)
                          ELSE c4.soln_pds_direct_ch4_co2_emissions_saved.x[y][r])
                    ELSE Num(0)
    /\ UaReturned("ch4_ppb_calculator") =>
          \A A \in Ch4Years :
              /\ \A Y \in columns : ~InWindow(Y) => result.table[A].cells[Y] = ZeroCell
              /\ \A delta \in DOMAIN result.table[A].Total :
                    result.table[A].Total[delta] # 0 => InWindow(A - delta + 1)
              /\ result.table[A].PPB = [tons |-> result.table[A].Total, per |-> tons_per_ppb]

\* A series with emissions before, inside and after the window, and with a
\* missing value outside it: only the years inside keep their emission.
C20_Witness ==
    /\ UaReturned("ch4_tons_reduced")
    /\ \E y \in Ch4Years :
          /\ y < c4.ac.report_start_year
          /\ c4.soln_net_annual_funits_adopted[y]["World"].v > 0
          /\ result.table[y]["World"] = Num(0)
    /\ \E y \in Ch4Years :
          /\ y > c4.ac.report_end_year
          /\ c4.soln_net_annual_funits_adopted[y]["World"].v > 0
          /\ result.table[y]["World"] = Num(0)
    /\ \E y \in Ch4Years : InWindow(y) /\ result.table[y]["World"].v > 0
    /\ \E y \in Ch4Years : \E r \in Regions :
          /\ IsNaN(c4.soln_net_annual_funits_adopted[y][r])
          /\ result.table[y][r] = Num(0)

\* x > y for two cells of one column of the grid, x = b * e^(-d/12) and
\* y = c * e^(-f/12): decided by the signs, and for equal signs when the
\* factor and the exponent point the same way.
CellExceeds(x, y) ==
    /\ ~x.nan /\ ~y.nan
    /\ \/ x.b > 0 /\ y.b <= 0
       \/ x.b = 0 /\ y.b < 0
       \/ /\ x.b > 0 /\ y.b > 0
          /\ x.b >= y.b /\ x.delta <= y.delta
          /\ (x.b > y.b \/ x.delta < y.delta)
       \/ /\ x.b < 0 /\ y.b < 0
          /\ x.b >= y.b /\ x.delta >= y.delta
          /\ (x.b > y.b \/ x.delta > y.delta)

\* C21: in the grid, the contribution of a pulse of magnitude B > 0 in year
\* Y falls strictly from each atmospheric year to the next, from Y on to the
\* last year of the horizon.
C21_DecayDecreases ==
    UaReturned("ch4_ppb_calculator") =>
        \A Y \in PulseYears : PulseOf(Y).v > 0 =>
            \A A \in Ch4Years : (A >= Y /\ A + 1 \in Ch4Years) =>
                CellExceeds(result.table[A].cells[Y], result.table[A + 1].cells[Y])

\* A pulse followed by at least two further years, with three different
\* contributions.
C21_Witness ==
    /\ UaReturned("ch4_ppb_calculator")
    /\ \E Y \in PulseYears :
          /\ PulseOf(Y).v > 0
          /\ Y + 2 \in Ch4Years
          /\ result.table[Y].cells[Y].delta = 1
          /\ result.table[Y + 1].cells[Y].delta = 2
          /\ result.table[Y + 2].cells[Y].delta = 3

\* ---------------------------------------------- CustomAdoption properties
\* The included scenarios that have a value for region reg in year y, and
\* the mean and the population variance of those values.
Contributors(reg, y) ==
    { n \in DOMAIN ca.scenarios :
        ca.scenarios[n].include /\ ~IsNaN(ca.scenarios[n].df.table[y][reg]) }
ValueOf(n, reg, y) == ca.scenarios[n].df.table[y][reg].v
RECURSIVE TotalOfValues(_, _, _)
TotalOfValues(S, reg, y) ==
    IF S = {} THEN 0
    ELSE LET n == CHOOSE n \in S : TRUE
         IN  ValueOf(n, reg, y) + TotalOfValues(S \ {n}, reg, y)
MeanOf(reg, y) == TotalOfValues(Contributors(reg, y), reg, y) \div Cardinality(Contributors(reg, y))
RECURSIVE SquaredDeviations(_, _, _)
SquaredDeviations(S, reg, y) ==
    IF S = {} THEN 0
    ELSE LET n == CHOOSE n \in S : TRUE
             d == ValueOf(n, reg, y) - MeanOf(reg, y)
         IN  d * d + SquaredDeviations(S \ {n}, reg, y)
PopulationVariance(reg, y) ==
    SquaredDeviations(Contributors(reg, y), reg, y) \div Cardinality(Contributors(reg, y))
\* mean + c standard deviations, not available without a contributor.
Composite(reg, y, c) ==
    IF Contributors(reg, y) = {} THEN NaN
    ELSE Root(MeanOf(reg, y), c, PopulationVariance(reg, y))
AverageNames == {"Average of All Custom PDS Scenarios", "Average of All Custom Scenarios"}
LowNames == {"Low of All Custom PDS Scenarios", "Low of All Custom Scenarios"}
HighNames == {"High of All Custom PDS Scenarios", "High of All Custom Scenarios"}

\* C22: per region and year the average is the mean over the included
\* scenarios that have a value there (an excluded scenario or a blank region
\* adds nothing, not a zero), and high and low are that mean plus and minus
\* the multiplier times the population standard deviation of the same
\* values; the accessor returns these with the multiplier 1.
C22_Composites ==
    /\ UaCalled("_avg_high_low") =>
          \A y \in YEARS : \A reg \in Regions :
              /\ result.avg[y][reg] = Composite(reg, y, 0)
              /\ result.high[y][reg] = Composite(reg, y, result.num_sds)
              /\ result.low[y][reg] = Composite(reg, y, 0 - result.num_sds)
    /\ (UaCalled("adoption_data_per_region")
        /\ ca.soln_adoption_custom_name \in AverageNames \cup LowNames \cup HighNames) =>
          /\ result.status = "ok"
          /\ \A y \in YEARS : \A reg \in Regions :
                result.table[y][reg] =
                    Composite(reg, y, IF ca.soln_adoption_custom_name \in AverageNames THEN 0
                                      ELSE IF ca.soln_adoption_custom_name \in HighNames THEN 1
                                      ELSE 0 - 1)

\* Composites of two standard deviations where one scenario is excluded, one
\* lacks a region that another has, and the values of the others differ.
C22_Witness ==
    /\ UaCalled("_avg_high_low")
    /\ result.num_sds = 2
    /\ \E n \in DOMAIN ca.scenarios : ~ca.scenarios[n].include
    /\ \E y \in YEARS : \E reg \in Regions :
          /\ Cardinality(Contributors(reg, y)) = 1
          /\ \E n \in DOMAIN ca.scenarios :
                ca.scenarios[n].include /\ IsNaN(ca.scenarios[n].df.table[y][reg])
          /\ result.high[y][reg] = result.avg[y][reg]
    /\ \E y \in YEARS :
          /\ Cardinality(Contributors("World", y)) = 2
          /\ result.avg[y]["World"] = Num(6)
          /\ result.high[y]["World"] = Num(18)
          /\ result.low[y]["World"] = Num(0 - 6)

\* C23: with the name of a loaded scenario the accessor returns that
\* scenario's table, and the stored scenarios are still as the constructor
\* stored them; with a name that is neither a composite nor a loaded
\* scenario it raises ValueError and returns no table.
C23_Selection ==
    (UaCalled("adoption_data_per_region")
     /\ ca.soln_adoption_custom_name \notin AverageNames \cup LowNames \cup HighNames) =>
        IF ca.soln_adoption_custom_name \in DOMAIN ca.scenarios
        THEN /\ result.status = "ok"
             /\ result.table = ca.scenarios[ca.soln_adoption_custom_name].df.table
             /\ ca.scenarios = ScenariosFrom(ca.data_sources, Len(ca.data_sources))
        ELSE /\ result.status = "raised"
             /\ result.exc = "ValueError"
             /\ result.table = <<>>

\* The named scenario is returned although it is excluded from the
\* composites.
C23_Witness ==
    /\ UaReturned("adoption_data_per_region")
    /\ ca.soln_adoption_custom_name = "Scenario 3"
    /\ ~ca.scenarios["Scenario 3"].include
    /\ result.table = ca.scenarios["Scenario 3"].df.table
    /\ result.name = "adoption_data_per_region"
    /\ ca.scenarios["Scenario 3"].df.name = ""

\* ------------------------------------------------------------------ TAM claims

\* The studies a selection stands for, the selection in force in year y, and
\* the studies of a set that have a value in year y.
TamMembers(name) ==
    IF name = "ALL SOURCES" THEN TamSources
    ELSE IF name \in DOMAIN tm.tam_ref_data_sources THEN tm.tam_ref_data_sources[name]
    ELSE {name}
SelectedIn(y) ==
    TamMembers(IF y <= 2014 THEN tm.tamconfig.source_until_2014
               ELSE tm.tamconfig.source_after_2014)
Having(S, y) == { s \in S : ~IsNaN(tm.files[s][y]) }
StudyValues(S, y) == { tm.files[s][y].v : s \in Having(S, y) }
\* The sum of the p-th powers (p = 1 or 2) of the values of the studies S.
RECURSIVE PowerSum(_, _, _)
PowerSum(S, y, p) ==
    IF S = {} THEN 0
    ELSE LET s == CHOOSE s \in S : TRUE
             v == tm.files[s][y].v
         IN  (IF p = 2 THEN v * v ELSE v) + PowerSum(S \ {s}, y, p)
\* x is the smallest (largest) value of the studies S in year y.
IsMinOf(x, S, y) == ~IsNaN(x) /\ x.v \in StudyValues(S, y) /\ \A v \in StudyValues(S, y) : x.v <= v
IsMaxOf(x, S, y) == ~IsNaN(x) /\ x.v \in StudyValues(S, y) /\ \A v \in StudyValues(S, y) : x.v >= v
\* N^2 times the population variance of the values of the studies S, N of
\* them having a value; x is their population standard deviation.
ScaledVariance(S, y) ==
    Cardinality(Having(S, y)) * PowerSum(Having(S, y), y, 2)
        - PowerSum(Having(S, y), y, 1) * PowerSum(Having(S, y), y, 1)
IsPopulationSdOf(x, S, y) ==
    /\ ~IsNaN(x)
    /\ IF "rad" \in DOMAIN x
       THEN /\ x.v = 0
            /\ x.c > 0
            /\ x.c * x.c * x.rad * Cardinality(Having(S, y)) * Cardinality(Having(S, y))
                  = ScaledVariance(S, y)
       ELSE /\ x.v >= 0
            /\ x.v * x.v * Cardinality(Having(S, y)) * Cardinality(Having(S, y))
                  = ScaledVariance(S, y)

\* C24 as stated: per year Min, Max and S.D are each taken over the selected
\* sources only, by the selection of the year's window.
C24_AsStated ==
    UaReturned("forecast_min_max_sd_global") =>
        \A y \in TamYears : Having(SelectedIn(y), y) # {} =>
            /\ IsMinOf(result.table[y]["Min"], SelectedIn(y), y)
            /\ IsMaxOf(result.table[y]["Max"], SelectedIn(y), y)
            /\ IsPopulationSdOf(result.table[y]["S.D"], SelectedIn(y), y)

\* C24: per year Min and Max are the smallest and the largest value over
\* every source of the forecast, selected or not (NaN when no source has a
\* value); S.D is the population standard deviation (divide by N) over the
\* selected sources that have a value, by the selection until 2014 for the
\* years up to 2014 and the selection after 2014 for the later years, and 0
\* when no selected source has a value.
C24_MinMaxSd ==
    UaCalled("forecast_min_max_sd_global") =>
        /\ result.status = "ok"
        /\ \A y \in TamYears :
              /\ IF Having(TamSources, y) = {}
                 THEN IsNaN(result.table[y]["Min"]) /\ IsNaN(result.table[y]["Max"])
                 ELSE /\ IsMinOf(result.table[y]["Min"], TamSources, y)
                      /\ IsMaxOf(result.table[y]["Max"], TamSources, y)
              /\ IF Having(SelectedIn(y), y) = {}
                 THEN result.table[y]["S.D"] = Num(0)
                 ELSE IsPopulationSdOf(result.table[y]["S.D"], SelectedIn(y), y)

\* Two selections: until 2014 the two baseline studies, which differ, after
\* 2014 all three; the third study lies below the baseline studies in a year
\* up to 2014 and is the minimum there, and the deviation of that year is
\* that of the two baseline studies alone.
C24_Witness ==
    /\ UaReturned("forecast_min_max_sd_global")
    /\ tm.tamconfig.source_until_2014 = "Baseline Cases"
    /\ tm.tamconfig.source_after_2014 = "ALL SOURCES"
    /\ \E y \in TamYears :
          /\ y <= 2014
          /\ tm.files["Study A"][y] = Num(6)
          /\ tm.files["Study B"][y] = Num(12)
          /\ tm.files["Study C"][y] = Num(0)
          /\ result.table[y]["Min"] = Num(0)
          /\ result.table[y]["Max"] = Num(12)
          /\ result.table[y]["S.D"] = Num(3)
    /\ \E y \in TamYears :
          /\ y > 2014
          /\ result.table[y]["Min"] = Num(0)
          /\ result.table[y]["S.D"] = Root(0, 1, 24)


\* The mean and the population variance of the selected studies that have a
\* value in year y (whole numbers for the levels of the runs).
SelectedMean(y) ==
    PowerSum(Having(SelectedIn(y), y), y, 1) \div Cardinality(Having(SelectedIn(y), y))
SelectedVariance(y) ==
    ScaledVariance(SelectedIn(y), y)
        \div (Cardinality(Having(SelectedIn(y), y)) * Cardinality(Having(SelectedIn(y), y)))
IdenticalStudies == \A s \in TamSources : tm.files[s] = tm.files["Study A"]

\* C25: per year in which a selected source has a value, Medium is the mean
\* over the selected sources, Low is Medium minus the low multiplier times
\* S.D and High is Medium plus the high multiplier times S.D, where S.D is
\* the population standard deviation of min_max_sd over the same sources;
\* with three identical source series S.D is 0 in every year and Low, Medium
\* and High all equal the series.
C25_LowMedHigh ==
    UaCalled("forecast_low_med_high_global") =>
        /\ result.status = "ok"
        /\ \A y \in TamYears : Having(SelectedIn(y), y) # {} =>
              /\ result.table[y]["Medium"] = Num(SelectedMean(y))
              /\ result.table[y]["Low"] =
                    Root(SelectedMean(y), 0 - tm.tamconfig.low_sd_mult, SelectedVariance(y))
              /\ result.table[y]["High"] =
                    Root(SelectedMean(y), tm.tamconfig.high_sd_mult, SelectedVariance(y))
              /\ IsPopulationSdOf(forecast_min_max_sd_global(tm).table[y]["S.D"],
                                  SelectedIn(y), y)
        /\ IdenticalStudies =>
              \A y \in TamYears :
                  /\ forecast_min_max_sd_global(tm).table[y]["S.D"] = Num(0)
                  /\ Having(SelectedIn(y), y) # {} =>
                        \A c \in {"Low", "Medium", "High"} :
                            result.table[y][c] = tm.files["Study A"][y]

\* Three identical series that are not zero, all selected, with a high
\* multiplier of 2: Low, Medium and High are the series.
C25_Witness ==
    /\ UaReturned("forecast_low_med_high_global")
    /\ IdenticalStudies
    /\ tm.tamconfig.source_after_2014 = "ALL SOURCES"
    /\ tm.tamconfig.high_sd_mult = 2
    /\ \E y \in TamYears :
          /\ y > 2014
          /\ tm.files["Study A"][y] = Num(12)
          /\ result.table[y]["Medium"] = Num(12)
          /\ result.table[y]["Low"] = Num(12)
          /\ result.table[y]["High"] = Num(12)

\* ------------------------------------------------- UnitAdoption object claims

\* C26: every call of an accessor returns what the first call of that
\* accessor on the object returned, name and values, whatever was called in
\* between.
C26_ReferentiallyTransparent ==
    (op \in UaFunctions) =>
        /\ result.name = heap.first[op].name
        /\ result.table = heap.first[op].table

\* C27: no step changes an object that exists already: not the frames passed
\* to the constructor, not a frame an earlier call returned; a call only adds
\* objects.
C27_NoMutation ==
    [][\A ref \in 1..Len(heap.objects) : heap'.objects[ref] = heap.objects[ref]]_vars


\* ------------------------------------------------- replacement lookback

\* C28: whatever the lifetime the object was constructed with, a call of a
\* new-units accessor comes back: it returns a table or raises, the backward
\* stepping of replacement_year does not go on for ever.
C28_LookbackTerminates ==
    (op \in NewIunitsAccessors) => result.status \in {"ok", "raised"}


\* The object that has, as its PDS adoption, annual use and solution lifetime,
\* the series, annual use and lifetime another new-units accessor works on:
\* Reference adoption for soln_ref_new_iunits_reqd, the net adoption with the
\* conventional use and lifetime for conv_ref_new_iunits.
AsPdsOfRef == [ua EXCEPT !.soln_pds_funits_adopted = ua.soln_ref_funits_adopted]
AsPdsOfConv ==
    [ua EXCEPT !.soln_pds_funits_adopted = soln_net_annual_funits_adopted(ua).table,
               !.ac.soln_avg_annual_use = ua.ac.conv_avg_annual_use,
               !.ac.soln_lifetime_replacement_rounded = ua.ac.conv_lifetime_replacement_rounded]

\* C29: soln_ref_new_iunits_reqd and conv_ref_new_iunits return the table
\* that soln_pds_new_iunits_reqd returns on the same series with the same
\* lifetime, the shrinking-market condition included.
C29_SameAlgorithm ==
    /\ UaReturned("soln_ref_new_iunits_reqd") =>
          result.table = soln_pds_new_iunits_reqd(AsPdsOfRef).table
    /\ UaReturned("conv_ref_new_iunits") =>
          result.table = soln_pds_new_iunits_reqd(AsPdsOfConv).table


\* ------------------------------------------------------- instance claims

\* What accessor f computes from the inputs of the object at position i.
OwnResult(f, i) ==
    IF f = "ch4_tons_reduced" THEN ch4_tons_reduced(heap.instances[i].self)
    ELSE soln_pds_cumulative_funits(heap.instances[i].self)

\* C30: whatever objects were built and called before, a call of an accessor
\* on an object returns what the accessor computes from that object's own
\* inputs, and every entry of a cache holds the result of the object it is
\* kept for; a result cached for one object is never returned for another.
C30_OwnResults ==
    /\ (op \in CachedFunctions) =>
          /\ result.table = OwnResult(op, result.instance).table
          /\ result.name = op
    /\ \A f \in CachedFunctions : \A k \in 1..Len(heap.cache[f]) :
          heap.cache[f][k].ret = OwnResult(f, heap.cache[f][k].key)

\* Three CH4Calcs objects, the first with another emissions factor than the
\* other two; the cache is full and holds the entries of the third and of
\* the first.  The call on the first returns its own result, which differs
\* from the result cached for the third and from that of the second.
C30_Witness ==
    /\ op = "ch4_tons_reduced"
    /\ InstancesOf("CH4Calcs") = {1, 2, 3}
    /\ result.instance = 1
    /\ Len(heap.cache["ch4_tons_reduced"]) = maxsize
    /\ heap.cache["ch4_tons_reduced"][maxsize].key = 1
    /\ \E k \in 1..(maxsize - 1) :
          /\ heap.cache["ch4_tons_reduced"][k].key = 3
          /\ heap.cache["ch4_tons_reduced"][k].ret.table # result.table
    /\ OwnResult("ch4_tons_reduced", 2).table # result.table

====
